---- MODULE Spec2Model ----
(***************************************************************************)
(* State-machine model of the BotBot orchestration core: the agent loop    *)
(* (AgentService.run), the security guard, the task lifecycle and          *)
(* scheduler, and the tool dispatcher.                                     *)
(***************************************************************************)
EXTENDS Integers, Sequences, FiniteSets, TLC

\* ------------------------------------------------------------------------
\* Bounds of the model

\* agent.max_iterations and the largest tool batch of the stub LLM, for the
\* specification that exercises the loop counters (SpecLoop)
LoopIterations == 5
LoopBatch == 1
\* agent.max_iterations for the specification of the circuit breaker (SpecBreaker)
BreakerIterations == 4
\* the same two, for the specification that exercises one tool batch (SpecOrder)
OrderIterations == 1
OrderBatch == 3
\* the same two, for the specification that varies the turn's parameters (Spec)
TurnIterations == 2
TurnBatch == 1
\* agent.history_limit
HistoryLimit == 3
\* stands for agent.max_input_length (16000 unless configured), in characters
MaxInputLength == 4
\* max_iterations and tool calls per response, for the turn that is stopped (SpecStop)
StopIterations == 2
StopBatch == 2
\* the stop requests one turn can get
MaxStops == 1
\* the agent jobs enqueued
MaxAgentJobs == 3

NumProviders == 2

MaxSends == 3

\* ------------------------------------------------------------------------
\* Program constants

\* consecutiveErrorIterations >= 3 injects the hint
CircuitBreakerThreshold == 3
\* maxTokensContinuations <= 3 continues
MaxContinuations == 3
\* queue.agent_concurrency when not configured
AgentConcurrency == 3

\* ------------------------------------------------------------------------
\* Messages (LLMMessage): role, content, toolCalls (ids), toolCallId

NoId == <<>>

Msg(role, content, calls, callId) ==
  [role |-> role, content |-> content, toolCalls |-> calls, toolCallId |-> callId]

UserMsg == Msg("user", "input", <<>>, NoId)
BlockedInputMsg == Msg("assistant", "input_blocked", <<>>, NoId)
AbortMsg == Msg("assistant", "Request cancelled.", <<>>, NoId)
LLMErrorMsg == Msg("assistant", "apology", <<>>, NoId)
HintMsg == Msg("user", "hint", <<>>, NoId)
ContMsg == Msg("user", "continue", <<>>, NoId)
FallbackMsg == Msg("assistant", "unable", <<>>, NoId)
BlockedOutputText == "output_blocked"
TooLongText == "too_long"

\* texts the LLM can answer with: empty, shorter than OUTPUT_SKIP_LENGTH, longer
Texts == {"", "t_short", "t_long"}
\* the text of a truncated (max_tokens) response
PartialTexts == {"t_long"}

\* a conversation left in the store by an earlier turn
PriorTurn ==
  << Msg("user", "old", <<>>, NoId),
     Msg("assistant", "", << <<0, 1>> >>, NoId),
     Msg("tool", "file", <<>>, <<0, 1>>),
     Msg("assistant", "t_short", <<>>, NoId) >>

\* ------------------------------------------------------------------------
VARIABLES
  cfg,          \* configuration: maxIterations, securityEnabled; the stub LLM and tools
  params,       \* run() parameters: userKnown, skipSecurity, the length of the text
  aborted,      \* params.signal.aborted
  activeToolControllers, \* the turn's entry of AgentProcessor.activeToolControllers
  store,        \* ConversationService rows of the user
  history,      \* run()'s in-memory history
  turnStart,    \* index in history of the turn's user message
  pc,           \* position of run(): idle, loop, await, done, threw
  iteration,
  finalText,
  consecutiveErrorIterations,
  maxTokensContinuations,
  toolCalls,    \* llmResponse.message.toolCalls: sequence of [id, kind]
  toolResults,  \* the toolResults Map, in insertion order: sequence of [id, content, isError]
  remotePromises, \* id -> "pending" | "ok" | "error" | "rejected", for dispatched calls
  llmCalls,     \* main-loop llm.sendMessage calls made
  result,       \* what run() returned: [text, files], or NoResult
  obs           \* observations for the properties (no effect on the run)

VARIABLES
  inputCheck,   \* the verdict checkInput gave run(): none, safe, unsafe; or "any" when
                \* the guard is left out and both verdicts are possible
  verdictCache, \* SecurityGuardService.verdictCache, in insertion order: [key, safe, timestamp]
  now,          \* Date.now(), in ticks of the clock
  checks,       \* the checkInput calls in progress: caller -> call record
  flagged       \* observation: the messages both layers have flagged in one check

guardVars == << inputCheck, verdictCache, now, checks, flagged >>

VARIABLES
  task,         \* the stored Task: status, taskType, schedule, failureCount
  taskQueue,    \* botbot-tasks: the job sched-<id>, the scheduler cron-<id> and its job
  runs,         \* the executeTask calls awaiting their agent run: slot -> run record
  last          \* observation: the last step on the task, and the events it published

taskVars == << task, taskQueue, runs, last >>

VARIABLES
  proactiveJobs,  \* botbot-tasks: the proactive-delivery jobs, [jobId, message, delay, state]
  proactiveCalls, \* user -> the scheduleProactive calls made for the user
  turns,          \* user -> the user's turns: where run() and its evaluateProactivity are
  proactiveLast   \* observation: the last step on the proactive jobs

proactiveVars == << proactiveJobs, proactiveCalls, turns, proactiveLast >>

VARIABLES
  dispatches,   \* the dispatch calls: call -> [pc, aborted, preAborted, firedAt, firedBy]
  toolJobs,     \* botbot-tools: call -> the state of the job the call added
  cancelNotices, \* the calls for whose correlation id a notice went out on botbot:cancel:<id>
  started       \* observation: the calls whose job a ToolProcessor began to process

dispatchVars == << dispatches, toolJobs, cancelNotices, started >>

VARIABLES
  agentJobs,         \* botbot-agent: job -> [user, state, aborted, caller, queuedAtCancel]
  activeControllers, \* AgentProcessor.activeControllers: user -> the job whose controller it holds
  cancelling         \* the users for whom a cancelForUser call awaits queue.getWaiting()

queueVars == << agentJobs, activeControllers, cancelling >>

VARIABLES
  index,   \* LoadBalancedProvider.index
  sends    \* the sendMessage calls: call -> [state, startIndex, i, tried, by]

llmVars == << index, sends >>

agentVars == << cfg, params, aborted, activeToolControllers, store, history, turnStart, pc, iteration,
                finalText, consecutiveErrorIterations, maxTokensContinuations,
                toolCalls, toolResults, remotePromises, llmCalls, result, obs >>

notAgent == << guardVars, taskVars, proactiveVars, dispatchVars, queueVars, llmVars >>

notGuard == << agentVars, taskVars, proactiveVars, dispatchVars, queueVars, llmVars >>

notTask == << agentVars, guardVars, proactiveVars, dispatchVars, queueVars, llmVars >>

notProactive == << agentVars, guardVars, taskVars, dispatchVars, queueVars, llmVars >>

notDispatch == << agentVars, guardVars, taskVars, proactiveVars, queueVars, llmVars >>

notQueue == << agentVars, guardVars, taskVars, proactiveVars, dispatchVars, llmVars >>

notLLM == << agentVars, guardVars, taskVars, proactiveVars, dispatchVars, queueVars >>

vars == << agentVars, guardVars, taskVars, proactiveVars, dispatchVars, queueVars, llmVars >>

NoResult == [text |-> "none", files |-> <<>>]

\* ------------------------------------------------------------------------
\* Helpers

Last(s) == s[Len(s)]

Min(a, b) == IF a < b THEN a ELSE b

\* ConversationService.getHistory: the most recent `limit` rows, oldest first
GetHistory(rows, limit) ==
  IF Len(rows) <= limit THEN rows
  ELSE SubSeq(rows, Len(rows) - limit + 1, Len(rows))

\* a store that drops what is appended
AppendNothing2Store(rows, known, msgs) == rows

\* a store that keeps only the first message of what a step appends
Append2StoreFirst(rows, known, msgs) ==
  IF known /\ msgs # <<>> THEN Append(rows, msgs[1]) ELSE rows

\* ConversationService.append, when the user is known
Append2Store(rows, known, msgs) == IF known THEN rows \o msgs ELSE rows

\* extractFiles scanning the whole history instead of the turn's part
ExtractFilesFromStart(h, startIndex) ==
  LET found == SelectSeq(h, LAMBDA m : m.role = "tool" /\ m.content = "file")
  IN [i \in 1..Len(found) |-> found[i].toolCallId]

\* extractFiles: the file-bearing tool messages of history.slice(startIndex);
\* startIndex is 0-based, as in the source
ExtractFiles(h, startIndex) ==
  LET found == SelectSeq(SubSeq(h, startIndex + 1, Len(h)),
                         LAMBDA m : m.role = "tool" /\ m.content = "file")
  IN [i \in 1..Len(found) |-> found[i].toolCallId]

\* ------------------------------------------------------------------------
\* AgentService.run: the tool batch of one tool_use response

Kinds == {"activate", "local", "noskill", "remote"}

\* what the stub LLM and the local handlers can produce for one call: the kind of
\* the tool and, for a call handled in-process, whether the handler succeeds
\* ("task" is one of the task management tools, whose handlers the router runs
\* in-process)
CallChoices(kinds) ==
  [kind : kinds \cap {"activate", "local", "task"}, ok : BOOLEAN]
    \cup [kind : kinds \cap {"noskill", "remote"}, ok : {FALSE}]

BatchChoices(maxBatch, kinds) == UNION {[1..n -> CallChoices(kinds)] : n \in 1..maxBatch}

CallIds(tcs) == [i \in 1..Len(tcs) |-> tcs[i].id]

NoPromises == [i \in {} |-> "pending"]

\* Map.set on the toolResults map: a new key goes last, a known key keeps its place
MapSet(trs, id, content, isError) ==
  LET e == [id |-> id, content |-> content, isError |-> isError]
  IN IF \E i \in 1..Len(trs) : trs[i].id = id
     THEN [i \in 1..Len(trs) |-> IF trs[i].id = id THEN e ELSE trs[i]]
     ELSE Append(trs, e)

MapGet(trs, id) == trs[CHOOSE i \in 1..Len(trs) : trs[i].id = id]

\* the text of a tool result: the stub tools of a specification either say whether
\* they failed or answer with the same text either way
ContentOf(isError) ==
  IF cfg.plainContent THEN "out" ELSE IF isError THEN "error" ELSE "ok"

\* Phase 1: classify every call; the in-process ones are executed at once, in call
\* order, and the others are dispatched
RECURSIVE Phase1Results(_, _, _)
Phase1Results(tcs, choices, i) ==
  IF i = 0 THEN <<>>
  ELSE LET before == Phase1Results(tcs, choices, i - 1)
           k == tcs[i].kind
       IN IF k = "remote" THEN before
          ELSE IF k = "noskill" THEN MapSet(before, tcs[i].id, ContentOf(TRUE), TRUE)
          ELSE MapSet(before, tcs[i].id, ContentOf(~choices[i].ok), ~choices[i].ok)

\* process() registers a new AbortController for the tools of the turn
NewToolController == [signal |-> "live", replaced |-> 0]

\* params.getToolSignal?.() ?? signal, as a dispatch sees it: aborted or not; the
\* turn's own signal stands in once the tool controller is gone from the map
ToolSignalAborted ==
  IF activeToolControllers.signal = "none" THEN aborted
  ELSE activeToolControllers.signal = "aborted"

\* the dispatches of Phase 1; one made under an aborted signal is rejected at once
Phase1Promises(tcs) ==
  [id \in {tcs[i].id : i \in {j \in 1..Len(tcs) : tcs[j].kind = "remote"}} |->
     IF ToolSignalAborted THEN "cancelled" ELSE "pending"]

\* onAbort of every dispatch still waiting: reject(new Error('Cancelled'))
CancelPending(promises) ==
  [id \in DOMAIN promises |-> IF promises[id] = "pending" THEN "cancelled" ELSE promises[id]]

\* whether some dispatched call has not settled yet
SomePending(promises) == \E id \in DOMAIN promises : promises[id] = "pending"

\* Phase 2: the settled promises, taken in the order they were dispatched
RECURSIVE Phase2Results(_, _, _, _)
Phase2Results(trs, tcs, promises, i) ==
  IF i = 0 THEN trs
  ELSE LET before == Phase2Results(trs, tcs, promises, i - 1)
           id == tcs[i].id
       IN IF tcs[i].kind # "remote" THEN before
          ELSE IF promises[id] = "ok" THEN MapSet(before, id, ContentOf(FALSE), FALSE)
          ELSE MapSet(before, id, ContentOf(TRUE), TRUE)

\* Phase 3 passing over the calls that failed
Phase3MessagesOfSuccesses(tcs, trs) ==
  LET ok == SelectSeq(tcs, LAMBDA tc : ~MapGet(trs, tc.id).isError)
  IN [i \in 1..Len(ok) |-> Msg("tool", MapGet(trs, ok[i].id).content, <<>>, ok[i].id)]

\* Phase 3 walking the toolResults map (insertion order) instead of the calls
Phase3MessagesByArrival(tcs, trs) ==
  [i \in 1..Len(trs) |-> Msg("tool", trs[i].content, <<>>, trs[i].id)]

\* Phase 3: one tool message per call, in the order of the calls
Phase3Messages(tcs, trs) ==
  [i \in 1..Len(tcs) |-> Msg("tool", MapGet(trs, tcs[i].id).content, <<>>, tcs[i].id)]

AllToolsFailed(tcs, trs) == \A i \in 1..Len(tcs) : MapGet(trs, tcs[i].id).isError

\* the circuit breaker firing one batch late
CircuitBreakerLate(count, allFailed) ==
  IF allFailed
  THEN [count |-> count + 1,
        msgs |-> IF count + 1 > CircuitBreakerThreshold THEN <<HintMsg>> ELSE <<>>]
  ELSE [count |-> 0, msgs |-> <<>>]

\* the circuit breaker whose counter a successful batch leaves alone
CircuitBreakerNoReset(count, allFailed) ==
  IF allFailed
  THEN [count |-> count + 1,
        msgs |-> IF count + 1 >= CircuitBreakerThreshold THEN <<HintMsg>> ELSE <<>>]
  ELSE [count |-> count, msgs |-> <<>>]

\* the circuit breaker: the new counter and the messages it appends
CircuitBreaker(count, allFailed) ==
  IF allFailed
  THEN [count |-> count + 1,
        msgs |-> IF count + 1 >= CircuitBreakerThreshold THEN <<HintMsg>> ELSE <<>>]
  ELSE [count |-> 0, msgs |-> <<>>]

\* the max_tokens branch continuing once too often
ContinueOnceMore(continuations) == continuations <= MaxContinuations + 1

\* the max_tokens branch: TRUE when the partial response is continued
ContinueAfterMaxTokens(continuations) == continuations <= MaxContinuations

\* after the loop: the fallback answer when the iterations ran out without one
PostLoop(h, it, ft) ==
  IF it >= cfg.maxIterations /\ ft = ""
  THEN IF Len(h) > 0 /\ Last(h).role = "assistant"
       THEN [history |-> h, text |-> Last(h).content, appended |-> <<>>]
       ELSE [history |-> Append(h, FallbackMsg), text |-> FallbackMsg.content,
             appended |-> <<FallbackMsg>>]
  ELSE [history |-> h, text |-> ft, appended |-> <<>>]

\* ------------------------------------------------------------------------
\* AgentService.run

Running == pc \in {"loop", "await"}

\* a loop that runs one iteration past the cap
LoopContinuesAtCap(it) == it <= cfg.maxIterations

\* the loop condition: iteration < this.maxIterations
LoopContinues(it) == it < cfg.maxIterations

\* what ends the turn after the loop: the fallback, the file scan, the return
Return(h, rows, it, ft) ==
  LET post == PostLoop(h, it, ft)
  IN /\ history' = post.history
     /\ store' = Append2Store(rows, params.userKnown, post.appended)
     /\ finalText' = post.text
     /\ result' = [text |-> post.text, files |-> ExtractFiles(post.history, turnStart)]
     /\ pc' = "done"

\* the length validation accepting one character less
InputTooLongAtMax(length) == length >= MaxInputLength

\* the length validation: textForChecks.length > this.maxInputLength
InputTooLong(length) == length > MaxInputLength

\* toolRouter.cleanupBrowserSession(correlationId), after the loop
CleanupBrowserSession(o) == [o EXCEPT !.cleaned = TRUE]

\* input longer than agent.max_input_length: rejected before anything else
RunTooLong ==
  /\ pc = "idle"
  /\ InputTooLong(params.length)
  /\ result' = [text |-> TooLongText, files |-> <<>>]
  /\ pc' = "done"
  /\ UNCHANGED notAgent
  /\ UNCHANGED << cfg, params, aborted, activeToolControllers, store, history, turnStart, iteration, finalText,
                  consecutiveErrorIterations, maxTokensContinuations, toolCalls,
                  toolResults, remotePromises, llmCalls, obs >>

\* the history loaded for the turn, with the user message pushed
LoadedHistory ==
  Append(IF params.userKnown THEN GetHistory(store, HistoryLimit) ELSE <<>>, UserMsg)

\* the input security check flags the message: the turn ends with the block notice
RunBlocked ==
  /\ pc = "idle"
  /\ ~InputTooLong(params.length)
  /\ cfg.securityEnabled /\ ~params.skipSecurity
  /\ inputCheck \in {"any", "unsafe"}
  /\ history' = Append(LoadedHistory, BlockedInputMsg)
  /\ store' = Append2Store(store, params.userKnown, <<UserMsg, BlockedInputMsg>>)
  /\ result' = [text |-> BlockedInputMsg.content, files |-> <<>>]
  /\ pc' = "done"
  /\ obs' = [obs EXCEPT !.inputChecked = TRUE]
  /\ UNCHANGED notAgent
  /\ UNCHANGED << cfg, params, aborted, activeToolControllers, turnStart, iteration, finalText,
                  consecutiveErrorIterations, maxTokensContinuations, toolCalls,
                  toolResults, remotePromises, llmCalls >>

\* the input passes (or the check is skipped): the loop starts
RunProceed ==
  /\ pc = "idle"
  /\ ~InputTooLong(params.length)
  /\ (cfg.securityEnabled /\ ~params.skipSecurity) => inputCheck \in {"any", "safe"}
  /\ history' = LoadedHistory
  /\ store' = Append2Store(store, params.userKnown, <<UserMsg>>)
  /\ turnStart' = Len(LoadedHistory) - 1
  /\ pc' = "loop"
  /\ obs' = [obs EXCEPT !.inputChecked = cfg.securityEnabled /\ ~params.skipSecurity,
                        !.correlation = TRUE]
  /\ UNCHANGED notAgent
  /\ UNCHANGED << cfg, params, aborted, activeToolControllers, iteration, finalText,
                  consecutiveErrorIterations, maxTokensContinuations, toolCalls,
                  toolResults, remotePromises, llmCalls, result >>

\* an iteration check that never sees the signal
SignalNeverSeen == FALSE

\* the iteration check: signal?.aborted
SignalAborted == aborted

\* top of an iteration with the signal aborted: the cancellation notice, then out
LoopAborted ==
  /\ pc = "loop"
  /\ LoopContinues(iteration)
  /\ SignalAborted
  /\ iteration' = iteration + 1
  /\ Return(Append(history, AbortMsg),
            Append2Store(store, params.userKnown, <<AbortMsg>>),
            iteration + 1, AbortMsg.content)
  /\ obs' = CleanupBrowserSession([obs EXCEPT !.lastStep = "aborted"])
  /\ UNCHANGED notAgent
  /\ UNCHANGED << cfg, params, aborted, activeToolControllers, turnStart, consecutiveErrorIterations,
                  maxTokensContinuations, toolCalls, toolResults, remotePromises,
                  llmCalls >>

\* llm.sendMessage throws: the apology is persisted and the error leaves run()
LLMError ==
  /\ pc = "loop"
  /\ LoopContinues(iteration)
  /\ ~SignalAborted
  /\ iteration' = iteration + 1
  /\ llmCalls' = llmCalls + 1
  /\ history' = Append(history, LLMErrorMsg)
  /\ store' = Append2Store(store, params.userKnown, <<LLMErrorMsg>>)
  /\ pc' = "threw"
  /\ obs' = [obs EXCEPT !.lastStep = "error", !.outOfOrder = FALSE,
                        !.firstResp = IF llmCalls = 0 THEN [stop |-> "error", text |-> "", calls |-> 0] ELSE @]
  /\ UNCHANGED notAgent
  /\ UNCHANGED << cfg, params, aborted, activeToolControllers, turnStart, finalText, consecutiveErrorIterations,
                  maxTokensContinuations, toolCalls, toolResults, remotePromises, result >>

\* observation, in the specifications that record it: the calls of a batch that
\* failed, each with what failed (the in-process handler, the missing skill, the
\* remote job, the dispatch)
FailedCalls(tcs, trs, promises) ==
  IF ~cfg.observeFailures THEN {} ELSE
  {[id |-> tcs[i].id, cause |-> tcs[i].kind] :
     i \in {j \in 1..Len(tcs) : tcs[j].kind # "remote" /\ MapGet(trs, tcs[j].id).isError}}
  \cup
  {[id |-> tcs[i].id, cause |-> promises[tcs[i].id]] :
     i \in {j \in 1..Len(tcs) : tcs[j].kind = "remote" /\ promises[tcs[j].id] # "ok"}}

\* the dispatched calls that had settled when the waits of the others were
\* cancelled, with their outcomes
SettledCalls(before, promises) ==
  IF ~cfg.observeFailures \/ \A id \in DOMAIN promises : promises[id] # "cancelled"
  THEN {}
  ELSE {[id |-> id, outcome |-> before[id]] :
          id \in {i \in DOMAIN before : before[i] # "pending"}}

\* a circuit breaker that ends the turn with its hint
StopOnHint(msgs) == IF msgs = <<>> THEN "loop" ELSE "done"

\* the continue that ends the tool_use branch, hint or not: back to the loop test
ContinueLoop(msgs) == "loop"

\* collectTools: the kinds of tool offered to the LLM; the task management tools
\* are filtered out of the definitions when disableTaskTools is set
CollectTools(disableTaskTools) ==
  {"activate", "local", "remote"} \cup (IF disableTaskTools THEN {} ELSE {"task"})

\* the calls of a batch that executeTool passed to a task handler: the loop runs
\* whatever isLocalTool accepts, offered or not
TaskHandlerCalls(tcs) == {i \in 1..Len(tcs) : tcs[i].kind = "task"}

\* Phases 2 and 3 and the circuit breaker, once every dispatched call has settled
FinishBatch(h, rows, tcs, trs, promises) ==
  LET all == Phase2Results(trs, tcs, promises, Len(tcs))
      toolMsgs == Phase3Messages(tcs, all)
      failed == AllToolsFailed(tcs, all)
      cb == CircuitBreaker(consecutiveErrorIterations, failed)
  IN /\ history' = h \o toolMsgs \o cb.msgs
     /\ store' = Append2Store(rows, params.userKnown, toolMsgs \o cb.msgs)
     /\ consecutiveErrorIterations' = cb.count
     /\ toolCalls' = <<>>
     /\ toolResults' = <<>>
     /\ remotePromises' = NoPromises
     /\ pc' = ContinueLoop(cb.msgs)
     /\ obs' = [obs EXCEPT !.lastStep = "batch",
                           !.failed = FailedCalls(tcs, trs, promises),
                           !.settled = SettledCalls(remotePromises, promises),
                           !.outOfOrder = IF pc = "loop" THEN FALSE ELSE @,
                           !.errBatches = IF failed THEN @ + 1 ELSE 0,
                           !.taskToolRan = @ \/ TaskHandlerCalls(tcs) # {},
                           !.firstResp = IF llmCalls = 0 /\ pc = "loop"
                                         THEN [stop |-> "tool_use", text |-> "t_short", calls |-> Len(tcs)]
                                         ELSE @]

\* AgentProcessor.cancelForUser: the turn's signal fires, and so does the signal of
\* its tools, whose controller leaves the map
Abort ==
  /\ pc \in {"idle", "await"} \/ (pc = "loop" /\ LoopContinues(iteration))
  /\ ~aborted
  /\ aborted' = TRUE
  /\ activeToolControllers' = [activeToolControllers EXCEPT !.signal = "none"]
  /\ IF pc = "await"
     THEN FinishBatch(history, store, toolCalls, toolResults, CancelPending(remotePromises))
     ELSE UNCHANGED << store, history, pc, consecutiveErrorIterations, toolCalls,
                       toolResults, remotePromises, obs >>
  /\ UNCHANGED notAgent
  /\ UNCHANGED << cfg, params, turnStart, iteration, finalText, maxTokensContinuations,
                  llmCalls, result >>

\* a stop that aborts the tool controller and leaves it in the map
StopKeeps == "aborted"

\* stopForUser puts a new AbortController in the place of the aborted one
StopReplaces == "live"

\* AgentProcessor.stopForUser while the turn runs: the waits of the dispatched
\* calls are rejected, and the turn goes on with the results it has
StopForUser ==
  /\ pc \in {"idle", "await"} \/ (pc = "loop" /\ LoopContinues(iteration))
  /\ activeToolControllers.signal # "none"
  /\ activeToolControllers.replaced < MaxStops
  /\ activeToolControllers' = [signal |-> StopReplaces,
                               replaced |-> activeToolControllers.replaced + 1]
  /\ IF pc = "await"
     THEN FinishBatch(history, store, toolCalls, toolResults, CancelPending(remotePromises))
     ELSE UNCHANGED << store, history, pc, consecutiveErrorIterations, toolCalls,
                       toolResults, remotePromises, obs >>
  /\ UNCHANGED notAgent
  /\ UNCHANGED << cfg, params, aborted, turnStart, iteration, finalText,
                  maxTokensContinuations, llmCalls, result >>

\* a tool_use response with tool calls
LLMToolUse ==
  /\ pc = "loop"
  /\ LoopContinues(iteration)
  /\ ~SignalAborted
  /\ \E choices \in BatchChoices(cfg.maxBatch, cfg.kinds) :
       LET tcs == [i \in 1..Len(choices) |-> [id |-> <<iteration + 1, i>>, kind |-> choices[i].kind]]
           assistant == Msg("assistant", "t_short", CallIds(tcs), NoId)
           h == Append(history, assistant)
           rows == Append2Store(store, params.userKnown, <<assistant>>)
           trs == Phase1Results(tcs, choices, Len(tcs))
           promises == Phase1Promises(tcs)
       IN /\ iteration' = iteration + 1
          /\ llmCalls' = llmCalls + 1
          /\ IF ~SomePending(promises)
             THEN FinishBatch(h, rows, tcs, trs, promises)
             ELSE /\ history' = h
                  /\ store' = rows
                  /\ toolCalls' = tcs
                  /\ toolResults' = trs
                  /\ remotePromises' = promises
                  /\ pc' = "await"
                  /\ obs' = [obs EXCEPT !.lastStep = "dispatched", !.outOfOrder = FALSE, !.firstResp =
                               IF llmCalls = 0
                               THEN [stop |-> "tool_use", text |-> "t_short", calls |-> Len(tcs)]
                               ELSE @]
                  /\ UNCHANGED consecutiveErrorIterations
  /\ UNCHANGED notAgent
  /\ UNCHANGED << cfg, params, aborted, activeToolControllers, turnStart, finalText, maxTokensContinuations, result >>

\* a dispatched tool job settles: fulfilled with a result or an error, or rejected
RemoteSettle ==
  /\ pc = "await"
  /\ \E id \in DOMAIN remotePromises, outcome \in {"ok", "error", "rejected"} :
       /\ remotePromises[id] = "pending"
       /\ LET promises == [remotePromises EXCEPT ![id] = outcome]
              early == \E other \in DOMAIN remotePromises :
                          other[2] < id[2] /\ remotePromises[other] = "pending"
          IN IF ~SomePending(promises)
             THEN FinishBatch(history, store, toolCalls, toolResults, promises)
             ELSE /\ remotePromises' = promises
                  /\ obs' = [obs EXCEPT !.outOfOrder = @ \/ early]
                  /\ UNCHANGED << store, history, pc, consecutiveErrorIterations,
                                  toolCalls, toolResults >>
  /\ UNCHANGED notAgent
  /\ UNCHANGED << cfg, params, aborted, activeToolControllers, turnStart, iteration, finalText,
                  maxTokensContinuations, llmCalls, result >>

\* what a layer's LLM call can come to
LayerOutcomes == {"safe", "unsafe", "error"}

\* a layer whose error counts as a flag
LayerSafeStrict(outcome) == outcome = "safe"

\* a layer that errored fails open
LayerSafe(outcome) == outcome # "unsafe"

\* SecurityGuardService.checkOutput: what its content layer can come to; a response
\* shorter than OUTPUT_SKIP_LENGTH skips the layer
OutputLayerOutcomes(text) == IF text = "t_long" THEN LayerOutcomes ELSE {"skipped"}

\* the end of the turn with a final response: output check, persist, break
\* a final text that ignores the verdict of the output check
FinalTextUnchecked(text, safe) == text

\* finalText after the output check: the response, or the block notice
FinalTextChecked(text, safe) == IF safe THEN text ELSE BlockedOutputText

Final(text, stop) ==
  \E k \in (IF cfg.securityEnabled /\ text # "" /\ ~params.skipSecurity
            THEN OutputLayerOutcomes(text) ELSE {"none"}) :
    LET safe == LayerSafe(k)
        ft == FinalTextChecked(text, safe)
        m == Msg("assistant", ft, <<>>, NoId)
    IN /\ Return(Append(history, m), Append2Store(store, params.userKnown, <<m>>),
                 iteration + 1, ft)
       /\ obs' = [CleanupBrowserSession(obs) EXCEPT !.lastStep = "final", !.outOfOrder = FALSE,
                             !.outputFlagged = ~safe, !.outputLayer = k,
                             !.outputCheckedAt = IF cfg.observeOutputChecks /\ k \in LayerOutcomes
                                                 THEN now ELSE @,
                             !.mtResponses = IF stop = "max_tokens" THEN @ + 1 ELSE @,
                             !.firstResp = IF llmCalls = 0
                                           THEN [stop |-> stop, text |-> text, calls |-> 0]
                                           ELSE @]

\* an end_turn response (or a tool_use response without tool calls)
LLMFinal ==
  /\ pc = "loop"
  /\ LoopContinues(iteration)
  /\ ~SignalAborted
  /\ iteration' = iteration + 1
  /\ llmCalls' = llmCalls + 1
  /\ \E text \in Texts, stop \in {"end_turn", "tool_use"} : Final(text, stop)
  /\ UNCHANGED notAgent
  /\ UNCHANGED << cfg, params, aborted, activeToolControllers, turnStart, consecutiveErrorIterations,
                  maxTokensContinuations, toolCalls, toolResults, remotePromises >>

\* a max_tokens response: continued, or taken as final once the continuations ran out
LLMMaxTokens ==
  /\ pc = "loop"
  /\ LoopContinues(iteration)
  /\ ~SignalAborted
  /\ iteration' = iteration + 1
  /\ llmCalls' = llmCalls + 1
  /\ maxTokensContinuations' = maxTokensContinuations + 1
  /\ \E text \in PartialTexts :
       IF ContinueAfterMaxTokens(maxTokensContinuations + 1)
       THEN LET m == Msg("assistant", text, <<>>, NoId)
            IN /\ history' = history \o <<m, ContMsg>>
               /\ store' = Append2Store(store, params.userKnown, <<m, ContMsg>>)
               /\ obs' = [obs EXCEPT !.lastStep = "cont", !.outOfOrder = FALSE,
                                     !.mtResponses = @ + 1,
                                     !.firstResp = IF llmCalls = 0
                                                   THEN [stop |-> "max_tokens", text |-> text, calls |-> 0]
                                                   ELSE @]
               /\ UNCHANGED << pc, finalText, result >>
       ELSE Final(text, "max_tokens")
  /\ UNCHANGED notAgent
  /\ UNCHANGED << cfg, params, aborted, activeToolControllers, turnStart, consecutiveErrorIterations,
                  toolCalls, toolResults, remotePromises >>

\* the loop condition fails: the iterations ran out
LoopExhausted ==
  /\ pc = "loop"
  /\ ~LoopContinues(iteration)
  /\ Return(history, store, iteration, finalText)
  /\ obs' = CleanupBrowserSession([obs EXCEPT !.lastStep = "exhausted"])
  /\ UNCHANGED notAgent
  /\ UNCHANGED << cfg, params, aborted, activeToolControllers, turnStart, iteration, consecutiveErrorIterations,
                  maxTokensContinuations, toolCalls, toolResults, remotePromises,
                  llmCalls >>

\* ------------------------------------------------------------------------
\* SecurityGuardService

\* ECHO_SKIP_LENGTH
EchoSkipLength == 200
\* stands for CACHE_TTL_MS (5 minutes in the source), in ticks of the clock
CacheTtl == 1
\* stands for CACHE_MAX_SIZE (100 in the source)
CacheMaxSize == 1
\* the clock stops here
MaxTime == 2
\* the turns, other than the one modelled, that can be inside checkInput
OtherCallers == 1

\* the messages checked: their text and its length
GuardMessages ==
  { [text |-> "a", len |-> EchoSkipLength - 1], [text |-> "b", len |-> EchoSkipLength] }

\* caller 0 is the modelled turn, the others are concurrent turns
Callers == 0..OtherCallers

NoCheck == [state |-> "free"]

\* getCacheKey: the first 16 hex digits of sha256(direction:message), taken to be
\* distinct for distinct (direction, message)
GetCacheKey(m, direction) == << direction, m.text >>

CacheIndex(cache, key) == {i \in 1..Len(cache) : cache[i].key = key}

RemoveAt(seq, i) == SubSeq(seq, 1, i - 1) \o SubSeq(seq, i + 1, Len(seq))

\* getCachedVerdict: the cache left behind (an expired entry is deleted), and the
\* verdict found, if any
GetCachedVerdict(cache, key, t) ==
  IF CacheIndex(cache, key) = {}
  THEN [cache |-> cache, hit |-> FALSE, safe |-> TRUE]
  ELSE LET i == CHOOSE j \in CacheIndex(cache, key) : TRUE
       IN IF t - cache[i].timestamp > CacheTtl
          THEN [cache |-> RemoveAt(cache, i), hit |-> FALSE, safe |-> TRUE]
          ELSE [cache |-> cache, hit |-> TRUE, safe |-> cache[i].safe]

\* a cacheVerdict that never evicts
CacheVerdictKeepsAll(cache, key, safe, t) ==
  LET e == [key |-> key, safe |-> safe, timestamp |-> t]
  IN IF CacheIndex(cache, key) = {}
     THEN Append(cache, e)
     ELSE [i \in 1..Len(cache) |-> IF cache[i].key = key THEN e ELSE cache[i]]

\* cacheVerdict: evict the oldest entry of a full cache, then Map.set
CacheVerdict(cache, key, safe, t) ==
  LET room == IF Len(cache) >= CacheMaxSize /\ Len(cache) > 0 THEN Tail(cache) ELSE cache
      e == [key |-> key, safe |-> safe, timestamp |-> t]
  IN IF CacheIndex(room, key) = {}
     THEN Append(room, e)
     ELSE [i \in 1..Len(room) |-> IF room[i].key = key THEN e ELSE room[i]]

\* the combine rule blocking as soon as one layer is unsafe
CombineInputEither(echo, content) == ~(~LayerSafe(echo) \/ ~LayerSafe(content))

\* the combine rule of checkInput: TRUE (safe) unless both layers are unsafe
CombineInput(echo, content) == ~(~LayerSafe(echo) /\ ~LayerSafe(content))

\* an echo layer that runs on every message
SkipEchoNever(len) == FALSE

\* skipEcho: message.length < ECHO_SKIP_LENGTH
SkipEcho(len) == len < EchoSkipLength

\* checkInput up to the layers: the cache lookup
CheckInputStart ==
  \E c \in Callers, m \in GuardMessages :
    /\ checks[c].state = "free"
    /\ c = 0 => (pc = "idle" /\ inputCheck = "none" /\ ~InputTooLong(params.length))
    /\ LET got == GetCachedVerdict(verdictCache, GetCacheKey(m, "input"), now)
       IN /\ verdictCache' = got.cache
          /\ IF got.hit
             THEN /\ checks' = IF c # 0 THEN checks ELSE [checks EXCEPT ![c] =
                       [state |-> "done", msg |-> m, echo |-> "none", content |-> "none",
                        safe |-> got.safe, cached |-> TRUE]]
                  /\ inputCheck' = IF c # 0 THEN inputCheck
                                   ELSE IF got.safe THEN "safe" ELSE "unsafe"
             ELSE /\ checks' = [checks EXCEPT ![c] =
                       [state |-> "pending", msg |-> m, echo |-> "none", content |-> "none",
                        safe |-> TRUE, cached |-> FALSE]]
                  /\ UNCHANGED inputCheck
    /\ UNCHANGED << now, flagged >>
    /\ UNCHANGED notGuard

\* checkInput once both layers have settled: combine, cache, return (the
\* modelled turn's verdict is kept, a concurrent turn's slot is free again)
CheckInputFinish ==
  \E c \in Callers, e \in LayerOutcomes, k \in LayerOutcomes :
    /\ checks[c].state = "pending"
    /\ LET m == checks[c].msg
           skipEcho == SkipEcho(m.len)
           echo == IF skipEcho THEN "skipped" ELSE e
           safe == CombineInput(echo, k)
       IN /\ skipEcho => e = "safe"
          /\ verdictCache' = CacheVerdict(verdictCache, GetCacheKey(m, "input"), safe, now)
          /\ checks' = [checks EXCEPT ![c] = IF c # 0 THEN NoCheck ELSE
                [state |-> "done", msg |-> m, echo |-> echo, content |-> k,
                 safe |-> safe, cached |-> FALSE]]
          /\ inputCheck' = IF c # 0 THEN inputCheck ELSE IF safe THEN "safe" ELSE "unsafe"
          /\ flagged' = IF echo = "unsafe" /\ k = "unsafe" THEN flagged \cup {m} ELSE flagged
    /\ UNCHANGED now
    /\ UNCHANGED notGuard

\* time passes
Tick ==
  /\ now < MaxTime
  /\ now' = now + 1
  /\ UNCHANGED << inputCheck, verdictCache, checks, flagged >>
  /\ UNCHANGED notGuard

\* ------------------------------------------------------------------------
\* Tasks: TaskService, TaskSchedulerService, ToolRouterService's task handlers,
\* TaskProcessor and TaskLifecycleService, for one task

\* failureCount >= 3 pauses a cron task
PauseThreshold == 3
\* attempts of the job sched-<id>
JobAttempts == 3
\* stands for queue.task_concurrency (3 by default): the jobs a worker runs at once
TaskConcurrency == 2
\* the LLM calls and tool executions of one agent run that are told apart
MaxRunSteps == 1

Statuses == {"pending", "scheduled", "running", "completed", "failed", "cancelled", "paused"}

Slots == 1..TaskConcurrency

NoRun == [busy |-> FALSE, isCron |-> FALSE, cancelled |-> FALSE, steps |-> 0]

NoTask == [status |-> "none", taskType |-> "reminder", schedule |-> "none", failureCount |-> 0]

NoJobs == [sched |-> "none", attemptsMade |-> 0, cron |-> FALSE, cronJob |-> FALSE]

FreeSlots == {s \in Slots : ~runs[s].busy}

\* the step observed: what was done; the status, the failure count and the cron
\* registration before it; whether the task was cancelled while the run that
\* returned was in flight; the events published; whether the wait for the run was
\* rejected by a cancel
Observe(op, cancelled, published) ==
  [op |-> op, before |-> task.status, failures |-> task.failureCount,
   armed |-> taskQueue.cron, cancelled |-> cancelled, published |-> published,
   rejected |-> FALSE]

\* TaskSchedulerService.cancelTask: the delayed job sched-<id> is removed (the
\* removal of an active job throws, and is caught), the scheduler cron-<id> too
CancelTask(q) ==
  [q EXCEPT !.sched = IF @ = "delayed" THEN "none" ELSE @,
            !.attemptsMade = IF q.sched = "delayed" THEN 0 ELSE @,
            !.cron = FALSE]

\* taskCreate: the task stored, as scheduled when it has scheduled_at or
\* cron_expression; the scheduler is called next
TaskCreate ==
  \E type \in {"execution", "reminder"}, schedule \in {"once", "cron", "none"} :
    /\ task.status = "none"
    /\ task' = [status |-> IF schedule = "none" THEN "pending" ELSE "scheduled",
                taskType |-> type, schedule |-> schedule, failureCount |-> 0]
    /\ last' = Observe("create", FALSE, {})
    /\ UNCHANGED << taskQueue, runs >>
    /\ UNCHANGED notTask

\* a taskCreate that makes both registrations
RegisteredBoth(q, schedule) == [q EXCEPT !.sched = "delayed", !.cron = TRUE]

\* taskCreate's call of the scheduler: scheduleTask when scheduled_at is given (with
\* or without cron_expression, the schedule "once"), else registerCron
Registered(q, schedule) ==
  IF schedule = "once" THEN [q EXCEPT !.sched = "delayed"] ELSE [q EXCEPT !.cron = TRUE]

\* the registrations of the task the queue holds: the job sched-<id>, delayed or
\* being processed, and the job scheduler cron-<id>
LiveRegistrations(q) ==
  (IF q.sched # "none" THEN {"sched"} ELSE {}) \cup (IF q.cron THEN {"cron"} ELSE {})

\* taskCreate, the scheduler call: the job or the scheduler is added, or the call
\* throws and the task is marked failed
TaskCreateArm ==
  \E ok \in BOOLEAN :
    /\ last.op = "create"
    /\ task.schedule # "none"
    /\ IF ok
       THEN /\ taskQueue' = Registered(taskQueue, task.schedule)
            /\ UNCHANGED task
       ELSE /\ task' = [task EXCEPT !.status = "failed"]
            /\ UNCHANGED taskQueue
    /\ last' = Observe("arm", FALSE, {})
    /\ UNCHANGED runs
    /\ UNCHANGED notTask

Created == task.status # "none" /\ last.op # "create"

\* taskUpdate with a status among its updates
TaskUpdate ==
  \E status \in Statuses :
    /\ Created
    /\ task' = [task EXCEPT !.status = status]
    /\ runs' = IF status = "cancelled"
               THEN [s \in Slots |-> IF runs[s].busy THEN [runs[s] EXCEPT !.cancelled = TRUE]
                                     ELSE runs[s]]
               ELSE runs
    /\ last' = Observe("update", FALSE, {})
    /\ UNCHANGED taskQueue
    /\ UNCHANGED notTask

\* taskCancel
TaskCancel ==
  /\ Created
  /\ task' = [task EXCEPT !.status = "cancelled"]
  /\ taskQueue' = CancelTask(taskQueue)
  /\ runs' = [s \in Slots |-> IF runs[s].busy THEN [runs[s] EXCEPT !.cancelled = TRUE]
                              ELSE runs[s]]
  /\ last' = Observe("cancel", FALSE, {})
  /\ UNCHANGED notTask

\* the scheduler cron-<id> produces its next job
CronDue ==
  /\ taskQueue.cron
  /\ ~taskQueue.cronJob
  /\ taskQueue' = [taskQueue EXCEPT !.cronJob = TRUE]
  /\ UNCHANGED << task, runs, last >>
  /\ UNCHANGED notTask

\* executeTask up to the agent run: status running, task.started published
ExecuteTaskStart(s, isCron, op) ==
  /\ task' = [task EXCEPT !.status = "running"]
  /\ runs' = [runs EXCEPT ![s] = [busy |-> TRUE, isCron |-> isCron, cancelled |-> FALSE, steps |-> 0]]
  /\ last' = Observe(op, FALSE, {"task.started"})

\* TaskProcessor.process of the job sched-<id>: handleScheduledTask
HandleScheduledTask ==
  /\ taskQueue.sched = "delayed"
  /\ FreeSlots # {}
  /\ LET s == CHOOSE f \in FreeSlots : \A g \in FreeSlots : f <= g
     IN IF task.status \notin {"scheduled", "pending"}
        THEN /\ taskQueue' = [taskQueue EXCEPT !.sched = "none", !.attemptsMade = 0]
             /\ last' = Observe("skipOnce", FALSE, {})
             /\ UNCHANGED << task, runs >>
        ELSE IF task.taskType = "execution"
        THEN /\ ExecuteTaskStart(s, FALSE, "fireOnce")
             /\ taskQueue' = [taskQueue EXCEPT !.sched = "active"]
        ELSE /\ task' = [task EXCEPT !.status = "completed"]
             /\ taskQueue' = [taskQueue EXCEPT !.sched = "none", !.attemptsMade = 0]
             /\ last' = Observe("remindOnce", FALSE, {"notification.send", "task.completed"})
             /\ UNCHANGED runs
  /\ UNCHANGED notTask

\* a cron firing that skips cancelled tasks only
CronSkipsCancelledOnly(status) == status = "cancelled"

\* handleCronTask's test for skipping and deregistering
CronSkips(status) == status \in {"failed", "cancelled"}

\* TaskProcessor.process of a job of the scheduler cron-<id>: handleCronTask
HandleCronTask ==
  /\ taskQueue.cronJob
  /\ FreeSlots # {}
  /\ LET s == CHOOSE f \in FreeSlots : \A g \in FreeSlots : f <= g
         taken == [taskQueue EXCEPT !.cronJob = FALSE]
     IN IF CronSkips(task.status)
        THEN /\ taskQueue' = CancelTask(taken)
             /\ last' = Observe("skipCron", FALSE, {})
             /\ UNCHANGED << task, runs >>
        ELSE IF task.taskType = "execution"
        THEN /\ ExecuteTaskStart(s, TRUE, "fireCron")
             /\ taskQueue' = taken
        ELSE /\ taskQueue' = taken
             /\ last' = Observe("remindCron", FALSE, {"notification.send", "task.completed"})
             /\ UNCHANGED << task, runs >>
  /\ UNCHANGED notTask

\* the agent run executeTask enqueued makes an LLM call or executes a tool: the
\* job runs under its own controller, which only cancelForUser and stopForUser
\* abort, so the step does not look at the task
ExecuteTaskStep ==
  \E s \in Slots :
    /\ runs[s].busy
    /\ runs[s].steps < MaxRunSteps
    /\ runs' = [runs EXCEPT ![s].steps = @ + 1]
    /\ UNCHANGED << task, taskQueue, last >>
    /\ UNCHANGED notTask

\* executeTask always publishing its completion
NeverSuppressed(status) == FALSE

\* executeTask after a successful run: the task re-read, nothing more done if it
\* is cancelled
Suppressed(status) == status = "cancelled"

\* the job sched-<id> after its processor returned or threw for good
JobDone(q, s) == IF runs[s].isCron THEN q ELSE [q EXCEPT !.sched = "none", !.attemptsMade = 0]

\* executeTask, the agent run returned
ExecuteTaskSuccess ==
  \E s \in Slots, hasFiles \in BOOLEAN :
    /\ runs[s].busy
    /\ runs' = [runs EXCEPT ![s] = NoRun]
    /\ taskQueue' = JobDone(taskQueue, s)
    /\ IF Suppressed(task.status)
       THEN /\ ~hasFiles
            /\ last' = Observe(IF runs[s].isCron THEN "cronSuccess" ELSE "onceSuccess",
                               runs[s].cancelled, {})
            /\ UNCHANGED task
       ELSE /\ task' = [task EXCEPT
                          !.status = IF runs[s].isCron THEN "scheduled" ELSE "completed",
                          !.failureCount = IF runs[s].isCron THEN 0 ELSE @]
            /\ last' = Observe(IF runs[s].isCron THEN "cronSuccess" ELSE "onceSuccess",
                               runs[s].cancelled,
                               {"notification.send", "task.completed"}
                                 \cup (IF hasFiles THEN {"file.send"} ELSE {}))
    /\ UNCHANGED notTask

\* a pause that waits for one failure more
PauseLate(failureCount) == failureCount > PauseThreshold

\* the auto-pause test of executeTask's catch
PauseNow(failureCount) == failureCount >= PauseThreshold

\* the job sched-<id> after its processor threw: retried until its attempts are used
JobFailed(q, s) ==
  IF runs[s].isCron THEN q
  ELSE IF q.attemptsMade + 1 < JobAttempts
  THEN [q EXCEPT !.sched = "delayed", !.attemptsMade = @ + 1]
  ELSE [q EXCEPT !.sched = "none", !.attemptsMade = 0]

\* a catch that publishes nothing when the wait was rejected by a cancel
FailureEventsUnlessCancelled(cause) ==
  IF cause = "cancelled" THEN {} ELSE {"notification.send", "task.failed"}

\* the events executeTask's catch publishes, whatever the error
FailureEvents(cause) == {"notification.send", "task.failed"}

\* executeTask's catch: the await of agentQueue.enqueue threw, because the agent run
\* threw or because cancelForUser rejected the pending caller
ExecuteTaskCatch(s, cause) ==
  /\ runs[s].busy
  /\ runs' = [runs EXCEPT ![s] = NoRun]
  /\ IF runs[s].isCron
     THEN LET failureCount == task.failureCount + 1
          IN IF PauseNow(failureCount)
             THEN /\ task' = [task EXCEPT !.status = "paused", !.failureCount = failureCount]
                  /\ taskQueue' = CancelTask(taskQueue)
             ELSE /\ task' = [task EXCEPT !.status = "scheduled", !.failureCount = failureCount]
                  /\ UNCHANGED taskQueue
     ELSE /\ task' = [task EXCEPT !.status = "failed"]
          /\ taskQueue' = JobFailed(taskQueue, s)
  /\ last' = [Observe(IF runs[s].isCron THEN "cronFailure" ELSE "onceFailure",
                      runs[s].cancelled, FailureEvents(cause))
                EXCEPT !.rejected = cause = "cancelled"]
  /\ UNCHANGED notTask

\* executeTask, the agent run threw
ExecuteTaskFailure == \E s \in Slots : ExecuteTaskCatch(s, "error")

\* cancelForUser for the task's owner while executeTask awaits the agent job: the
\* pending caller is rejected with 'Cancelled'
CancelRejectsTaskWait == \E s \in Slots : ExecuteTaskCatch(s, "cancelled")

\* no task yet
TaskInit ==
  /\ task = NoTask
  /\ taskQueue = NoJobs
  /\ runs = [s \in Slots |-> NoRun]
  /\ last = [op |-> "none", before |-> "none", failures |-> 0, armed |-> FALSE,
             cancelled |-> FALSE, published |-> {}, rejected |-> FALSE]

TaskNext ==
  \/ TaskCreate
  \/ TaskCreateArm
  \/ TaskUpdate
  \/ TaskCancel
  \/ CronDue
  \/ HandleScheduledTask
  \/ HandleCronTask
  \/ ExecuteTaskStep
  \/ ExecuteTaskSuccess
  \/ ExecuteTaskFailure
  \/ CancelRejectsTaskWait

\* ------------------------------------------------------------------------
\* Proactive follow-ups: TaskSchedulerService.scheduleProactive and cancelProactive,
\* TaskProcessor's proactive-delivery

\* the scheduleProactive calls made for one user
MaxProactive == 2
\* the messages a user sends
MaxTurns == 2

Users == {"u1", "u2"}

\* result.delayMinutes
Delays == {1, 2}

\* the job id proactive-<userId>
ProactiveJobId(u) == << "proactive", u >>

JobsOf(jobs, u) == {j \in jobs : j.jobId = ProactiveJobId(u)}

\* job.remove(): a job a worker is processing is locked and stays
JobRemove(jobs, u) == {j \in jobs : j.jobId = ProactiveJobId(u) => j.state = "active"}

\* taskQueue.add with a jobId: ignored when the queue holds a job of that id
QueueAdd(jobs, job) == IF \E j \in jobs : j.jobId = job.jobId THEN jobs ELSE jobs \cup {job}

\* scheduleProactive going straight to add
KeepProactive(jobs, u) == jobs

\* cancelProactive: getJob, then remove if there is one; an error is swallowed
CancelProactive(jobs, u) == JobRemove(jobs, u)

\* scheduleProactive: cancelProactive, then add with the id proactive-<userId>;
\* the message is told apart by the number of the call
ScheduleProactive ==
  \E u \in Users, delay \in Delays :
    /\ proactiveCalls[u] < MaxProactive
    /\ proactiveCalls' = [proactiveCalls EXCEPT ![u] = @ + 1]
    /\ proactiveJobs' = QueueAdd(CancelProactive(proactiveJobs, u),
                                 [jobId |-> ProactiveJobId(u), message |-> proactiveCalls[u] + 1,
                                  delay |-> delay, state |-> "delayed"])
    /\ proactiveLast' = [op |-> "schedule", user |-> u, message |-> proactiveCalls[u] + 1,
                         delay |-> delay,
                         armed |-> \E j \in JobsOf(proactiveJobs, u) : j.state = "delayed"]
    /\ UNCHANGED turns
    /\ UNCHANGED notProactive

\* run() on a new message of the user, and evaluateProactivity that schedules nothing
NewMessageCancels ==
  \E u \in Users :
    /\ JobsOf(proactiveJobs, u) # {}
    /\ proactiveJobs' = CancelProactive(proactiveJobs, u)
    /\ proactiveLast' = [op |-> "cancel", user |-> u, message |-> 0, delay |-> 0,
                         armed |-> \E j \in JobsOf(proactiveJobs, u) : j.state = "delayed"]
    /\ UNCHANGED proactiveCalls
    /\ UNCHANGED turns
    /\ UNCHANGED notProactive

\* the delay is over: a worker takes the job
ProactiveDue ==
  \E j \in proactiveJobs :
    /\ j.state = "delayed"
    /\ proactiveJobs' = (proactiveJobs \ {j}) \cup {[j EXCEPT !.state = "active"]}
    /\ proactiveLast' = [op |-> "due", user |-> j.jobId[2], message |-> j.message,
                         delay |-> j.delay, armed |-> TRUE]
    /\ UNCHANGED proactiveCalls
    /\ UNCHANGED turns
    /\ UNCHANGED notProactive

\* TaskProcessor.process, proactive-delivery: the message published; the job is
\* kept among the completed ones (removeOnComplete keeps 50)
ProactiveDelivery ==
  \E j \in proactiveJobs :
    /\ j.state = "active"
    /\ proactiveJobs' = (proactiveJobs \ {j}) \cup {[j EXCEPT !.state = "completed"]}
    /\ proactiveLast' = [op |-> "deliver", user |-> j.jobId[2], message |-> j.message,
                         delay |-> j.delay, armed |-> FALSE]
    /\ UNCHANGED proactiveCalls
    /\ UNCHANGED turns
    /\ UNCHANGED notProactive

\* the messages of one user, one after the other
Turns == 1..MaxTurns

NoTurn == [run |-> "idle", eval |-> "none"]

\* run() begins on a new message of the user, the turn before having returned: the
\* fire-and-forget cancelProactive
RunStart ==
  \E u \in Users, t \in Turns :
    /\ turns[u][t].run = "idle"
    /\ \A s \in Turns : s < t => turns[u][s].run = "returned"
    /\ turns' = [turns EXCEPT ![u][t].run = "running"]
    /\ proactiveJobs' = CancelProactive(proactiveJobs, u)
    /\ proactiveLast' = [op |-> "start", user |-> u, message |-> t, delay |-> 0,
                         armed |-> \E j \in JobsOf(proactiveJobs, u) : j.state = "delayed"]
    /\ UNCHANGED proactiveCalls
    /\ UNCHANGED notProactive

\* run() returns, having set off evaluateProactivity (a turn with a channel), or
\* ends without it (no channel, a too-long input, a blocked input, an LLM error)
RunReturn ==
  \E u \in Users, t \in Turns, eval \in {"started", "skipped"} :
    /\ turns[u][t].run = "running"
    /\ turns' = [turns EXCEPT ![u][t] = [run |-> "returned", eval |-> eval]]
    /\ proactiveLast' = [op |-> "return", user |-> u, message |-> t, delay |-> 0,
                         armed |-> \E j \in JobsOf(proactiveJobs, u) : j.state = "delayed"]
    /\ UNCHANGED << proactiveJobs, proactiveCalls >>
    /\ UNCHANGED notProactive

\* evaluateProactivity up to the call of the evaluator: cancelProactive
EvaluateCancel ==
  \E u \in Users, t \in Turns :
    /\ turns[u][t].eval = "started"
    /\ turns' = [turns EXCEPT ![u][t].eval = "evaluating"]
    /\ proactiveJobs' = CancelProactive(proactiveJobs, u)
    /\ proactiveLast' = [op |-> "cancel", user |-> u, message |-> t, delay |-> 0,
                         armed |-> \E j \in JobsOf(proactiveJobs, u) : j.state = "delayed"]
    /\ UNCHANGED proactiveCalls
    /\ UNCHANGED notProactive

\* the evaluator answers: nothing (delay 0), or a follow-up that scheduleProactive
\* arms; the job carries the number of the turn it stems from
EvaluateSchedule ==
  \E u \in Users, t \in Turns, delay \in {0} \cup Delays :
    /\ turns[u][t].eval = "evaluating"
    /\ turns' = [turns EXCEPT ![u][t].eval = "done"]
    /\ proactiveJobs' =
         IF delay = 0 THEN proactiveJobs
         ELSE QueueAdd(CancelProactive(proactiveJobs, u),
                       [jobId |-> ProactiveJobId(u), message |-> t, delay |-> delay,
                        state |-> "delayed"])
    /\ proactiveLast' = [op |-> "evaluated", user |-> u, message |-> t, delay |-> delay,
                         armed |-> \E j \in JobsOf(proactiveJobs, u) : j.state = "delayed"]
    /\ UNCHANGED proactiveCalls
    /\ UNCHANGED notProactive

ProactiveInit ==
  /\ proactiveJobs = {}
  /\ turns = [u \in Users |-> [t \in Turns |-> NoTurn]]
  /\ proactiveCalls = [u \in Users |-> 0]
  /\ proactiveLast = [op |-> "none", user |-> "u1", message |-> 0, delay |-> 0, armed |-> FALSE]

ProactiveNext ==
  \/ ScheduleProactive
  \/ NewMessageCancels
  \/ ProactiveDue
  \/ ProactiveDelivery

\* ------------------------------------------------------------------------
\* Remote tools: ToolDispatcherService.dispatch and ToolProcessor

\* the dispatch calls
MaxDispatches == 2

Calls == 1..MaxDispatches

NoDispatch ==
  [pc |-> "idle", aborted |-> FALSE, preAborted |-> FALSE, firedAt |-> "none", firedBy |-> "none"]

\* onAbort's job.remove(): a waiting job goes, any other stays (the error is swallowed)
ToolJobRemove(state) == IF state = "waiting" THEN "removed" ELSE state

\* dispatch up to the return of toolQueue.add: the job is in the queue; the
\* caller's signal is aborted already, or not
DispatchAdd ==
  \E c \in Calls, aborted0 \in BOOLEAN :
    /\ dispatches[c].pc = "idle"
    /\ \A d \in Calls : d < c => dispatches[d].pc # "idle"
    /\ dispatches' = [dispatches EXCEPT ![c] =
                        [pc |-> "added", aborted |-> aborted0, preAborted |-> aborted0,
                         firedAt |-> "none", firedBy |-> "none"]]
    /\ toolJobs' = [toolJobs EXCEPT ![c] = "waiting"]
    /\ UNCHANGED started
    /\ UNCHANGED cancelNotices
    /\ UNCHANGED notDispatch

\* dispatch after the add: an aborted signal removes the job and rejects, else the
\* abort listener is set and the job's end awaited
DispatchCheck ==
  \E c \in Calls :
    /\ dispatches[c].pc = "added"
    /\ IF dispatches[c].aborted
       THEN /\ dispatches' = [dispatches EXCEPT ![c].pc = "rejected"]
            /\ toolJobs' = [toolJobs EXCEPT ![c] = ToolJobRemove(@)]
       ELSE /\ dispatches' = [dispatches EXCEPT ![c].pc = "waiting"]
            /\ UNCHANGED toolJobs
    /\ UNCHANGED started
    /\ UNCHANGED cancelNotices
    /\ UNCHANGED notDispatch

\* the operations that abort the signal a dispatch was given
Aborters == {"cancelForUser", "stopForUser"}

\* ToolDispatcherService.cancelByCorrelation: the waiting jobs of the correlation id
\* are removed and the notice is published; no code of the program calls it
CancelByCorrelation ==
  \E c \in Calls :
    /\ toolJobs[c] # "none"
    /\ toolJobs' = [toolJobs EXCEPT ![c] = ToolJobRemove(@)]
    /\ cancelNotices' = cancelNotices \cup {c}
    /\ UNCHANGED << dispatches, started >>
    /\ UNCHANGED notDispatch

\* the signal fires during the call, aborted by cancelForUser or by stopForUser:
\* onAbort, if the listener is set
SignalAbort ==
  \E c \in Calls, by \in Aborters :
    /\ dispatches[c].pc \in {"added", "waiting"}
    /\ ~dispatches[c].aborted
    /\ IF dispatches[c].pc = "waiting"
       THEN /\ dispatches' = [dispatches EXCEPT ![c].pc = "rejected", ![c].aborted = TRUE,
                                                ![c].firedAt = toolJobs[c], ![c].firedBy = by]
            /\ toolJobs' = [toolJobs EXCEPT ![c] = ToolJobRemove(@)]
       ELSE /\ dispatches' = [dispatches EXCEPT ![c].aborted = TRUE,
                                                ![c].firedAt = toolJobs[c], ![c].firedBy = by]
            /\ UNCHANGED toolJobs
    /\ UNCHANGED started
    /\ UNCHANGED cancelNotices
    /\ UNCHANGED notDispatch

\* a worker of botbot-tools, in this process or another, takes the job:
\* ToolProcessor.process begins
ProcessStart ==
  \E c \in Calls :
    /\ toolJobs[c] = "waiting"
    /\ toolJobs' = [toolJobs EXCEPT ![c] = "active"]
    /\ started' = started \cup {c}
    /\ UNCHANGED dispatches
    /\ UNCHANGED cancelNotices
    /\ UNCHANGED notDispatch

\* ToolProcessor.process returns its result (content, isError)
ProcessEnd ==
  \E c \in Calls :
    /\ toolJobs[c] = "active"
    /\ toolJobs' = [toolJobs EXCEPT ![c] = "completed"]
    /\ UNCHANGED << dispatches, started >>
    /\ UNCHANGED cancelNotices
    /\ UNCHANGED notDispatch

\* waitUntilFinished settles: dispatch resolves with the job's result
DispatchResolve ==
  \E c \in Calls :
    /\ dispatches[c].pc = "waiting"
    /\ toolJobs[c] = "completed"
    /\ dispatches' = [dispatches EXCEPT ![c].pc = "resolved"]
    /\ UNCHANGED << toolJobs, started >>
    /\ UNCHANGED cancelNotices
    /\ UNCHANGED notDispatch

DispatchInit ==
  /\ dispatches = [c \in Calls |-> NoDispatch]
  /\ toolJobs = [c \in Calls |-> "none"]
  /\ cancelNotices = {}
  /\ started = {}

DispatchNext ==
  \/ DispatchAdd
  \/ DispatchCheck
  \/ SignalAbort
  \/ ProcessStart
  \/ ProcessEnd
  \/ DispatchResolve

\* ------------------------------------------------------------------------
\* LoadBalancedProvider: round robin with failover

\* the configured providers
Providers == 0..(NumProviders - 1)

Sends == 1..MaxSends

NoSend == [state |-> "none", startIndex |-> 0, i |-> 0, tried |-> <<>>, by |-> -1]

\* an index that never advances
SameIndex(idx) == idx

\* this.index = (this.index + 1) % this.providers.length
NextIndex(idx) == (idx + 1) % NumProviders

\* the provider the loop tries at step i: (startIndex + i) % this.providers.length
ProviderAt(startIndex, i) == (startIndex + i) % NumProviders

\* sendMessage up to its first await: the start index is read and advanced
\* (a single provider is called directly, the index is left alone)
SendMessage ==
  \E k \in Sends :
    /\ sends[k].state = "none"
    /\ \A j \in Sends : j < k => sends[j].state # "none"
    /\ sends' = [sends EXCEPT ![k] = [NoSend EXCEPT !.state = "trying",
                    !.startIndex = IF NumProviders = 1 THEN 0 ELSE index]]
    /\ index' = IF NumProviders = 1 THEN index ELSE NextIndex(index)
    /\ UNCHANGED notLLM

\* the provider being tried answers: the response is returned
ProviderResponds ==
  \E k \in Sends :
    /\ sends[k].state = "trying"
    /\ LET idx == ProviderAt(sends[k].startIndex, sends[k].i)
       IN sends' = [sends EXCEPT ![k].state = "returned", ![k].by = idx,
                                 ![k].tried = Append(@, [idx |-> idx, ok |-> TRUE])]
    /\ UNCHANGED index
    /\ UNCHANGED notLLM

\* the provider being tried rejects: the next one is tried, and the call throws
\* once the loop has gone round (at once with a single provider)
ProviderFails ==
  \E k \in Sends :
    /\ sends[k].state = "trying"
    /\ LET idx == ProviderAt(sends[k].startIndex, sends[k].i)
       IN sends' = [sends EXCEPT ![k].i = @ + 1,
                                 ![k].tried = Append(@, [idx |-> idx, ok |-> FALSE]),
                                 ![k].state = IF sends[k].i + 1 >= NumProviders
                                              THEN "threw" ELSE "trying"]
    /\ UNCHANGED index
    /\ UNCHANGED notLLM

LoadBalancedInit ==
  /\ index = 0
  /\ sends = [k \in Sends |-> NoSend]

LoadBalancedNext ==
  \/ SendMessage
  \/ ProviderResponds
  \/ ProviderFails

\* ------------------------------------------------------------------------
\* The agent queue and its processor

AgentJobIds == 1..MaxAgentJobs

\* caller: the enqueue caller's promise (pendingCallers holds the pending ones);
\* queuedAtCancel: observation, the job was waiting when cancelForUser was called
NoAgentJob == [user |-> "u1", state |-> "none", aborted |-> FALSE, caller |-> "none",
               queuedAtCancel |-> FALSE]

ActiveJobs(u) == {j \in AgentJobIds : agentJobs[j].state = "active" /\ agentJobs[j].user = u}

AllActiveJobs == {j \in AgentJobIds : agentJobs[j].state = "active"}

WaitingJobs == {j \in AgentJobIds : agentJobs[j].state = "waiting"}

\* AgentQueueService.enqueue up to the return of queue.add: a channel handler, the
\* chat endpoint or executeTask puts a job of the user in the queue
Enqueue ==
  \E u \in Users, j \in AgentJobIds :
    /\ agentJobs[j].state = "none"
    /\ \A i \in AgentJobIds : i < j => agentJobs[i].state # "none"
    /\ agentJobs' = [agentJobs EXCEPT ![j] = [NoAgentJob EXCEPT !.user = u, !.state = "waiting",
                                                               !.caller = "pending"]]
    /\ UNCHANGED << activeControllers, cancelling >>
    /\ UNCHANGED notQueue

\* a free slot of the worker takes the oldest waiting job: AgentProcessor.process
\* puts its controller in the map under the user and calls run()
AgentProcessStart ==
  \E j \in WaitingJobs :
    /\ \A i \in WaitingJobs : j <= i
    /\ Cardinality(AllActiveJobs) < AgentConcurrency
    /\ agentJobs' = [agentJobs EXCEPT ![j].state = "active"]
    /\ activeControllers' = [activeControllers EXCEPT ![agentJobs[j].user] = j]
    /\ UNCHANGED cancelling
    /\ UNCHANGED notQueue

\* run() returns or throws: the finally of process deletes the user's entry, and
\* waitUntilFinished settles the caller's promise if it is still pending
AgentProcessEnd ==
  \E j \in AllActiveJobs :
    /\ agentJobs' = [agentJobs EXCEPT ![j].state = "completed",
                                      ![j].caller = IF @ = "pending" THEN "settled" ELSE @]
    /\ activeControllers' = [activeControllers EXCEPT ![agentJobs[j].user] = 0]
    /\ UNCHANGED cancelling
    /\ UNCHANGED notQueue

\* AgentQueueService.cancelForUser up to its await: the controller in the map is
\* aborted and deleted, the pending callers of the user are rejected
CancelForUser ==
  \E u \in Users :
    /\ u \notin cancelling
    /\ \E j \in AgentJobIds : agentJobs[j].user = u /\ agentJobs[j].state \in {"waiting", "active"}
    /\ agentJobs' = [j \in AgentJobIds |->
                       IF agentJobs[j].user # u THEN agentJobs[j]
                       ELSE [agentJobs[j] EXCEPT
                               !.aborted = @ \/ j = activeControllers[u],
                               !.caller = IF @ = "pending" THEN "rejected" ELSE @,
                               !.queuedAtCancel = @ \/ agentJobs[j].state = "waiting"]]
    /\ activeControllers' = [activeControllers EXCEPT ![u] = 0]
    /\ cancelling' = cancelling \cup {u}
    /\ UNCHANGED notQueue

\* cancelForUser once queue.getWaiting() has answered: the jobs of the user that are
\* waiting now are removed
CancelRemoveWaiting ==
  \E u \in cancelling :
    /\ agentJobs' = [j \in AgentJobIds |->
                       IF agentJobs[j].user = u /\ agentJobs[j].state = "waiting"
                       THEN [agentJobs[j] EXCEPT !.state = "removed"]
                       ELSE agentJobs[j]]
    /\ cancelling' = cancelling \ {u}
    /\ UNCHANGED activeControllers
    /\ UNCHANGED notQueue

AgentQueueInit ==
  /\ agentJobs = [j \in AgentJobIds |-> NoAgentJob]
  /\ activeControllers = [u \in Users |-> 0]
  /\ cancelling = {}

AgentQueueNext ==
  \/ Enqueue
  \/ AgentProcessStart
  \/ AgentProcessEnd
  \/ CancelForUser
  \/ CancelRemoveWaiting

\* ------------------------------------------------------------------------
\* Specifications of the agent turn

NoObs ==
  [lastStep |-> "start", errBatches |-> 0, mtResponses |-> 0, outOfOrder |-> FALSE,
   outputFlagged |-> FALSE, outputLayer |-> "none", outputCheckedAt |-> -1,
   correlation |-> FALSE, cleaned |-> FALSE, taskToolRan |-> FALSE, failed |-> {}, settled |-> {}, inputChecked |-> FALSE,
   firstResp |-> [stop |-> "none", text |-> "", calls |-> 0], store0 |-> <<>>]

\* the state run() starts from; outputs tells whether the times of the output
\* checks are observed
AgentInitWith(iterations, batch, kinds, plain, causes, known, skip, lengths, priors, outputs) ==
  /\ cfg = [maxIterations |-> iterations, maxBatch |-> batch, kinds |-> kinds,
            plainContent |-> plain, observeFailures |-> causes, securityEnabled |-> TRUE,
            observeOutputChecks |-> outputs]
  /\ params \in [userKnown : known, skipSecurity : skip, length : lengths,
                  disableTaskTools : IF "task" \in kinds THEN BOOLEAN ELSE {FALSE}]
  /\ aborted = FALSE
  /\ activeToolControllers = NewToolController
  /\ store \in priors
  /\ history = <<>>
  /\ turnStart = 0
  /\ pc = "idle"
  /\ iteration = 0
  /\ finalText = ""
  /\ consecutiveErrorIterations = 0
  /\ maxTokensContinuations = 0
  /\ toolCalls = <<>>
  /\ toolResults = <<>>
  /\ remotePromises = NoPromises
  /\ llmCalls = 0
  /\ result = NoResult
  /\ obs = [NoObs EXCEPT !.store0 = store]

AgentInit(iterations, batch, kinds, plain, causes, known, skip, lengths, priors) ==
  AgentInitWith(iterations, batch, kinds, plain, causes, known, skip, lengths, priors, FALSE)

\* the guard left out: run() may get either verdict
GuardAbstract ==
  /\ inputCheck = "any"
  /\ verdictCache = <<>>
  /\ now = 0
  /\ checks = [c \in Callers |-> NoCheck]
  /\ flagged = {}

\* the loop, once the input has passed
LoopNext ==
  \/ RunProceed
  \/ Abort
  \/ LoopAborted
  \/ LLMError
  \/ LLMToolUse
  \/ RemoteSettle
  \/ LLMFinal
  \/ LLMMaxTokens
  \/ LoopExhausted

AgentNext ==
  \/ RunTooLong
  \/ RunBlocked
  \/ LoopNext

\* the turn under every combination of its parameters
Init == AgentInit(TurnIterations, TurnBatch, Kinds, FALSE, TRUE, BOOLEAN, BOOLEAN, {MaxInputLength, MaxInputLength + 1}, {<<>>, PriorTurn}) /\ GuardAbstract /\ TaskInit /\ ProactiveInit /\ DispatchInit /\ AgentQueueInit /\ LoadBalancedInit
Spec == Init /\ [][AgentNext]_vars

\* the loop counters: a known user, many iterations
InitLoop == AgentInit(LoopIterations, LoopBatch, {"local", "remote"}, TRUE, FALSE, {TRUE}, {TRUE}, {MaxInputLength}, {<<>>}) /\ GuardAbstract /\ TaskInit /\ ProactiveInit /\ DispatchInit /\ AgentQueueInit /\ LoadBalancedInit
SpecLoop == InitLoop /\ [][LoopNext]_vars

\* one tool batch of several calls
InitOrder == AgentInit(OrderIterations, OrderBatch, {"local", "remote"}, FALSE, FALSE, {TRUE}, {TRUE}, {MaxInputLength}, {PriorTurn}) /\ GuardAbstract /\ TaskInit /\ ProactiveInit /\ DispatchInit /\ AgentQueueInit /\ LoadBalancedInit
SpecOrder == InitOrder /\ [][LoopNext]_vars

\* a turn long enough for a successful batch and three all-error ones, the tool
\* results telling an error from a success
InitBreaker == AgentInit(BreakerIterations, LoopBatch, {"local", "remote"}, FALSE, FALSE, {TRUE}, {TRUE}, {MaxInputLength}, {<<>>}) /\ GuardAbstract /\ TaskInit /\ ProactiveInit /\ DispatchInit /\ AgentQueueInit /\ LoadBalancedInit
SpecBreaker == InitBreaker /\ [][LoopNext]_vars

\* a turn whose LLM may ask for a task management tool, with and without
\* disableTaskTools
InitTaskTools == AgentInit(TurnIterations, TurnBatch, {"activate", "task", "remote"}, FALSE, FALSE, {TRUE}, {TRUE}, {MaxInputLength}, {<<>>}) /\ GuardAbstract /\ TaskInit /\ ProactiveInit /\ DispatchInit /\ AgentQueueInit /\ LoadBalancedInit
SpecTaskTools == InitTaskTools /\ [][LoopNext]_vars

\* a turn of the same length whose LLM calls and tool jobs all come back (the tool
\* results not told apart)
InitCap == AgentInit(BreakerIterations, LoopBatch, {"local", "remote"}, TRUE, FALSE, {TRUE}, {TRUE}, {MaxInputLength}, {<<>>}) /\ GuardAbstract /\ TaskInit /\ ProactiveInit /\ DispatchInit /\ AgentQueueInit /\ LoadBalancedInit
SpecCapFair == InitCap /\ [][LoopNext]_vars /\ WF_vars(LoopNext)

\* a known user with an earlier conversation: every way a turn can go, the input
\* check and the circuit breaker included
InitPersist == AgentInit(BreakerIterations, LoopBatch, {"local", "remote"}, FALSE, FALSE, {TRUE}, BOOLEAN, {MaxInputLength, MaxInputLength + 1}, {PriorTurn}) /\ GuardAbstract /\ TaskInit /\ ProactiveInit /\ DispatchInit /\ AgentQueueInit /\ LoadBalancedInit
SpecPersist == InitPersist /\ [][AgentNext]_vars

\* a turn of tool batches that can be stopped and cancelled while it runs
InitStop == AgentInit(StopIterations, StopBatch, {"remote"}, FALSE, TRUE, {TRUE}, {TRUE}, {MaxInputLength}, {<<>>}) /\ GuardAbstract /\ TaskInit /\ ProactiveInit /\ DispatchInit /\ AgentQueueInit /\ LoadBalancedInit

StopNext ==
  \/ RunProceed
  \/ StopForUser
  \/ Abort
  \/ LoopAborted
  \/ LLMToolUse
  \/ RemoteSettle
  \/ LLMFinal
  \/ LoopExhausted

SpecStop == InitStop /\ [][StopNext]_vars

\* the guard with the turns that call it: the modelled turn, up to its first
\* iteration, again and again, and the concurrent checks of other turns
\* the guard as constructed, and everything else at rest
GuardConcrete ==
  /\ inputCheck = "none"
  /\ verdictCache = <<>>
  /\ now = 0
  /\ checks = [c \in Callers |-> NoCheck]
  /\ flagged = {}
  /\ TaskInit
  /\ ProactiveInit
  /\ DispatchInit /\ AgentQueueInit /\ LoadBalancedInit

InitGuard ==
  /\ AgentInit(TurnIterations, TurnBatch, Kinds, FALSE, FALSE, {FALSE}, {FALSE}, {MaxInputLength}, {<<>>})
  /\ GuardConcrete

\* the same, the times of the output checks observed
InitOutputChecks ==
  /\ AgentInitWith(TurnIterations, TurnBatch, Kinds, FALSE, FALSE, {FALSE}, {FALSE}, {MaxInputLength}, {<<>>}, TRUE)
  /\ GuardConcrete

\* the modelled turn is over; the next message of the user starts another
NextTurn ==
  /\ pc = "done"
  /\ pc' = "idle"
  /\ history' = <<>>
  /\ result' = NoResult
  /\ turnStart' = 0
  /\ iteration' = 0
  /\ finalText' = ""
  /\ llmCalls' = 0
  /\ obs' = [NoObs EXCEPT !.outputCheckedAt = obs.outputCheckedAt]
  /\ inputCheck' = "none"
  /\ checks' = [checks EXCEPT ![0] = NoCheck]
  /\ UNCHANGED << verdictCache, now, flagged >>
  /\ UNCHANGED << taskVars, proactiveVars, dispatchVars, queueVars, llmVars >>
  /\ UNCHANGED << cfg, params, aborted, activeToolControllers, store, consecutiveErrorIterations,
                  maxTokensContinuations, toolCalls, toolResults, remotePromises >>

GuardNext ==
  \/ CheckInputStart
  \/ CheckInputFinish
  \/ Tick
  \/ RunBlocked
  \/ RunProceed
  \/ LLMFinal
  \/ NextTurn

SpecGuard == InitGuard /\ [][GuardNext]_vars

SpecOutputChecks == InitOutputChecks /\ [][GuardNext]_vars

\* the queues and the task store empty, no agent turn of the chat in sight
InitTask ==
  /\ AgentInit(TurnIterations, TurnBatch, Kinds, FALSE, FALSE, {TRUE}, {TRUE}, {MaxInputLength}, {<<>>})
  /\ GuardAbstract
  /\ TaskInit
  /\ ProactiveInit
  /\ DispatchInit /\ AgentQueueInit /\ LoadBalancedInit

\* the life of one task
SpecTask == InitTask /\ [][TaskNext]_vars

\* the proactive follow-ups of two users
SpecProactive == InitTask /\ [][ProactiveNext]_vars

\* the dispatch of remote tool calls
\* the turns of the users with the proactive evaluation each sets off
TurnsNext ==
  \/ RunStart
  \/ RunReturn
  \/ EvaluateCancel
  \/ EvaluateSchedule
  \/ ProactiveDue
  \/ ProactiveDelivery

SpecTurns == InitTask /\ [][TurnsNext]_vars

\* the agent jobs of two users and the worker that runs them
SpecAgentQueue == InitTask /\ [][AgentQueueNext]_vars

SpecDispatch == InitTask /\ [][DispatchNext]_vars

\* overlapping sendMessage calls on the load-balanced provider
SpecLoadBalanced == InitTask /\ [][LoadBalancedNext]_vars

\* ------------------------------------------------------------------------
\* Properties of the agent turn

\* the ids of the tool messages that directly follow position p of h
ToolRunIds(h, p) ==
  LET n == CHOOSE k \in 0..(Len(h) - p) :
             /\ \A j \in 1..k : h[p + j].role = "tool"
             /\ (p + k = Len(h) \/ h[p + k + 1].role # "tool")
  IN [j \in 1..n |-> h[p + j].toolCallId]

\* the positions of this turn's tool_use responses in history
BatchPositions == {p \in (turnStart + 1)..Len(history) : history[p].toolCalls # <<>>}

\* C1: for every tool_use response of the turn, the tool messages appended after it
\* carry the ids of its calls in the order of the calls (none yet while the batch is
\* awaited), whatever the order the remote jobs settled in
C1_ToolResultsInCallOrder ==
  llmCalls > 0 =>
    \A p \in BatchPositions :
      ToolRunIds(history, p) =
        IF pc = "await" /\ p = Len(history) THEN <<>> ELSE history[p].toolCalls

\* a batch of three calls or more was appended after a later call settled first
C1_Witness ==
  /\ pc = "loop"
  /\ obs.lastStep = "batch"
  /\ obs.outOfOrder
  /\ \E p \in BatchPositions :
       /\ Len(history[p].toolCalls) >= 3
       /\ ToolRunIds(history, p) = history[p].toolCalls
       /\ \E j \in 1..3 : history[p + j].content = "ok"
       /\ \E j \in 1..3 : history[p + j].content = "error"

\* C2: after the third (or a later) consecutive all-error tool batch, in the state
\* from which the next LLM call is made, history ends with the batch's tool results
\* followed by the circuit-breaker hint, and the hint is persisted
C2_HintAfterThreeErrorBatches ==
  (pc = "loop" /\ obs.lastStep = "batch" /\ obs.errBatches >= 3) =>
    /\ Last(history) = HintMsg
    /\ Last(store) = HintMsg
    /\ \E p \in BatchPositions :
         /\ p + Len(history[p].toolCalls) + 1 = Len(history)
         /\ ToolRunIds(history, p) = history[p].toolCalls

\* the third consecutive all-error batch is done and a further LLM call can follow
C2_Witness ==
  /\ pc = "loop"
  /\ obs.lastStep = "batch"
  /\ obs.errBatches = 3
  /\ Last(history) = HintMsg
  /\ iteration < cfg.maxIterations

\* the continuation instructions appended in this turn
NumContinuations ==
  Len(SelectSeq(SubSeq(history, turnStart + 1, Len(history)), LAMBDA m : m = ContMsg))

\* C3: each of the first three max_tokens responses of a turn appends one
\* continuation instruction; the fourth appends none, ends the loop and is returned
\* as the answer
C3_AtMostThreeContinuations ==
  /\ NumContinuations = Min(obs.mtResponses, 3)
  /\ obs.mtResponses <= 4
  /\ obs.mtResponses = 4 =>
       /\ pc = "done"
       /\ obs.lastStep = "final"
       /\ Last(history).role = "assistant"
       /\ result.text = Last(history).content
       /\ result.text \in PartialTexts \cup {BlockedOutputText}

\* the fourth max_tokens response ended a turn that also ran a tool batch
C3_Witness ==
  /\ obs.mtResponses = 4
  /\ pc = "done"
  /\ NumContinuations = 3
  /\ BatchPositions # {}

\* a finished turn of a known user whose first LLM response was end_turn without
\* tool calls
SimpleTurn ==
  /\ pc = "done"
  /\ params.userKnown
  /\ obs.firstResp.stop = "end_turn"
  /\ obs.firstResp.calls = 0

\* C10 as stated: such a turn makes one LLM call, returns the response's text with no
\* files, and appends one user and one assistant message to the user's conversation
C10_SimpleTurnReturnsText ==
  SimpleTurn =>
    /\ llmCalls = 1
    /\ result = [text |-> obs.firstResp.text, files |-> <<>>]
    /\ Len(store) = Len(obs.store0) + 2
    /\ SubSeq(store, 1, Len(obs.store0)) = obs.store0
    /\ store[Len(store) - 1] = UserMsg
    /\ store[Len(store)].role = "assistant"

\* C10, amended: the text returned is the response's text unless the output check
\* flags it, and then it is the block notice; the assistant message appended carries
\* the text returned
C10_SimpleTurnReturnsTextOrNotice ==
  SimpleTurn =>
    /\ llmCalls = 1
    /\ result.files = <<>>
    /\ result.text = IF obs.outputFlagged THEN BlockedOutputText ELSE obs.firstResp.text
    /\ store = obs.store0 \o <<UserMsg, Msg("assistant", result.text, <<>>, NoId)>>

\* such a turn, after an earlier turn that produced a file
C10_Witness ==
  /\ SimpleTurn
  /\ obs.firstResp.text = "t_short"
  /\ obs.store0 = PriorTurn
  /\ result.text = "t_short"

\* the tool messages of history that answer the call id
ToolMessagesOf(id) ==
  {j \in 1..Len(history) : history[j].role = "tool" /\ history[j].toolCallId = id}

CountInTurn(m) ==
  Cardinality({j \in (turnStart + 1)..Len(history) : history[j] = m})

\* C12: when a main-loop LLM call fails, run has thrown, history ends with the one
\* apology of the turn, which is the last row of a known user's conversation (an
\* anonymous turn stores nothing), no result is returned, and from then on the turn
\* makes no LLM call, runs no tool and appends nothing.
C12_LLMFailureEndsTurn ==
  /\ [](obs.lastStep = "error" =>
          /\ pc = "threw"
          /\ result = NoResult
          /\ Last(history) = LLMErrorMsg
          /\ CountInTurn(LLMErrorMsg) = 1
          /\ toolCalls = <<>>
          /\ IF params.userKnown THEN (store # <<>> /\ Last(store) = LLMErrorMsg) ELSE store = obs.store0)
  /\ [][pc = "threw" => UNCHANGED << pc, llmCalls, history, store, toolCalls, result >>]_vars

\* the LLM call after a tool batch failed, for a known user
C12_Witness ==
  /\ pc = "threw"
  /\ obs.lastStep = "error"
  /\ params.userKnown
  /\ llmCalls = 2
  /\ BatchPositions # {}
  /\ Last(store) = LLMErrorMsg

\* C13: a turn whose text is longer than the maximum input length returns the
\* too-long message with no files, having made no LLM call and no security check,
\* with the conversation and the in-memory history as they were; a turn whose text
\* is at most the maximum never returns the too-long message and, once under way,
\* has stored the user message.
C13_TooLongRejectedUntouched ==
  /\ (InputTooLong(params.length) /\ pc # "idle") =>
       /\ pc = "done"
       /\ result = [text |-> TooLongText, files |-> <<>>]
       /\ llmCalls = 0
       /\ ~obs.inputChecked
       /\ store = obs.store0
       /\ history = <<>>
  /\ params.length > MaxInputLength => InputTooLong(params.length)
  /\ (params.length <= MaxInputLength /\ pc # "idle") =>
       /\ result.text # TooLongText
       /\ Len(history) > 0
       /\ params.userKnown => Len(store) > Len(obs.store0)

\* a too-long message of a known user with an earlier turn was rejected
C13_Witness ==
  /\ pc = "done"
  /\ params.length = MaxInputLength + 1
  /\ params.userKnown
  /\ store = PriorTurn
  /\ result.text = TooLongText

\* the assistant messages the LLM produced in the turn, by position in history
TurnAssistants ==
  {j \in (turnStart + 2)..Len(history) :
     history[j].role = "assistant" /\ history[j] # FallbackMsg}

\* the largest element of a non-empty set of positions
MaxOf(S) == CHOOSE j \in S : \A k \in S : k <= j

\* C14: when the loop ran out of iterations without a final answer, the result is
\* the text of the last assistant message the LLM produced in the turn and no
\* "unable to complete" message is appended; that message is the result only when
\* the turn produced no assistant message.
C14_ExhaustionAnswersWithLastAssistant ==
  (pc = "done" /\ obs.lastStep = "exhausted") =>
     IF TurnAssistants # {}
     THEN /\ result.text = history[MaxOf(TurnAssistants)].content
          /\ CountInTurn(FallbackMsg) = 0
     ELSE result.text = FallbackMsg.content

\* C15: once the turn's abort signal is set no main-loop LLM call is made any
\* more; the iteration check that follows appends the one 'Request cancelled.'
\* assistant message (stored for a known user) and ends the turn with that text.
C15_AbortStopsTheLoop ==
  /\ [](obs.lastStep = "aborted" =>
          /\ aborted
          /\ pc = "done"
          /\ result.text = AbortMsg.content
          /\ Last(history) = AbortMsg
          /\ CountInTurn(AbortMsg) = 1
          /\ params.userKnown => (store # <<>> /\ Last(store) = AbortMsg))
  /\ [][aborted => llmCalls' = llmCalls]_vars
  /\ [][(aborted /\ pc = "loop" /\ iteration < cfg.maxIterations) =>
          (obs'.lastStep = "aborted" /\ history' = Append(history, AbortMsg))]_vars

\* a turn cancelled after its first LLM call ended with the cancellation notice
C15_Witness ==
  /\ obs.lastStep = "aborted"
  /\ llmCalls >= 1
  /\ result.text = AbortMsg.content
  /\ params.userKnown

\* the calls whose wait the last batch saw rejected by an aborted signal
CancelledCalls == {f \in obs.failed : f.cause = "cancelled"}

\* C16: a stop during a tool batch rejects the waits still pending, each of which
\* gets its one error tool message, while the calls that had settled keep their
\* result and the loop goes on; a turn that was not cancelled never holds the
\* 'Request cancelled.' message; the tool controller in the map is never an aborted
\* one, so no call is rejected as cancelled in the step that dispatches it.
C16_StopAbortsToolsNotTurn ==
  /\ []((obs.lastStep = "batch" /\ ~aborted /\ CancelledCalls # {}) =>
          /\ pc = "loop"
          /\ result = NoResult
          /\ \A f \in CancelledCalls :
               /\ Cardinality(ToolMessagesOf(f.id)) = 1
               /\ \A j \in ToolMessagesOf(f.id) : history[j].content = "error"
          /\ \A k \in obs.settled :
               /\ Cardinality(ToolMessagesOf(k.id)) = 1
               /\ \A j \in ToolMessagesOf(k.id) :
                    history[j].content = IF k.outcome = "ok" THEN "ok" ELSE "error")
  /\ [](~aborted => (CountInTurn(AbortMsg) = 0 /\ result.text # AbortMsg.content))
  /\ [](activeToolControllers.signal # "aborted")
  /\ [][(llmCalls' # llmCalls /\ obs'.lastStep = "batch") =>
          \A f \in obs'.failed : f.cause # "cancelled"]_vars

\* after a stop that rejected one wait of the first batch and kept the result of
\* another, a call of the second iteration is waiting for its tool
C16_Witness ==
  /\ pc = "await"
  /\ iteration = 2
  /\ ~aborted
  /\ activeToolControllers.replaced = 1
  /\ SomePending(remotePromises)
  /\ \E f \in CancelledCalls : f.id[1] = 1
  /\ \E k \in obs.settled : k.outcome = "ok" /\ k.id[1] = 1

\* ------------------------------------------------------------------------
\* Properties of the security guard

\* C4: checkInput returns unsafe only if the echo layer and the content layer both
\* returned unsafe (in this call, or in the call that left the cached verdict it
\* returns); when exactly one layer flags the message the verdict is safe; the turn
\* reaches the LLM exactly when the verdict is safe, and is blocked otherwise.
C4_BlockNeedsBothLayers ==
  /\ checks[0].state = "done" =>
       /\ ~checks[0].cached =>
            (checks[0].safe <=> ~(checks[0].echo = "unsafe" /\ checks[0].content = "unsafe"))
       /\ ~checks[0].safe => checks[0].msg \in flagged
       /\ inputCheck = IF checks[0].safe THEN "safe" ELSE "unsafe"
  /\ (pc = "loop" \/ llmCalls > 0) => inputCheck = "safe"
  /\ (pc = "done" /\ inputCheck = "safe") => llmCalls = 1
  /\ (pc = "done" /\ inputCheck = "unsafe") => result.text = BlockedInputMsg.content

\* only the echo layer flagged the message, and the turn got its LLM response
C4_Witness ==
  /\ pc = "done"
  /\ llmCalls = 1
  /\ checks[0].state = "done"
  /\ ~checks[0].cached
  /\ checks[0].echo = "unsafe"
  /\ checks[0].content = "safe"

\* ------------------------------------------------------------------------
\* Properties of the task lifecycle

DocumentedEdge(from, to, op) ==
  \/ from = "none" /\ to \in {"pending", "scheduled"} /\ op = "create"
  \/ from \in {"pending", "scheduled"} /\ to = "running" /\ op \in {"fireOnce", "fireCron"}
  \/ from \in {"pending", "scheduled"} /\ to = "completed" /\ op = "remindOnce"
  \/ from = "running" /\ to = "completed" /\ op = "onceSuccess"
  \/ from = "running" /\ to = "scheduled" /\ op \in {"cronSuccess", "cronFailure"}
  \/ from = "running" /\ to = "failed" /\ op = "onceFailure"
  \/ from = "running" /\ to = "paused" /\ op = "cronFailure" /\ task.failureCount >= 3
  \/ to = "cancelled" /\ op = "cancel"

\* C7: every change of the task's status follows a documented edge, and paused is
\* reached only from repeated cron failure.
C7_OnlyDocumentedEdges ==
  last.before # task.status => DocumentedEdge(last.before, task.status, last.op)

\* ------------------------------------------------------------------------
\* Properties of the proactive follow-ups

C9_AbortedDispatchNeverRuns ==
  \A c \in Calls :
    dispatches[c].preAborted =>
      (c \notin started /\ dispatches[c].pc \in {"added", "rejected"})

\* C17: a dispatch whose signal fired while its job was waiting in the queue ends
\* rejected with the job removed, and no ToolProcessor ever starts processing it.
C17_AbortWhileWaitingRemovesJob ==
  \A c \in Calls :
    dispatches[c].firedAt = "waiting" =>
      /\ c \notin started
      /\ dispatches[c].pc \in {"added", "rejected"}
      /\ dispatches[c].pc = "rejected" => toolJobs[c] = "removed"

\* C18: when cancelForUser aborted the signal of a dispatch whose job a ToolProcessor
\* was processing, a cancel notice for the call's correlation id has been published,
\* and the job is still being processed or has completed.
C18_CancelNotifiesExecutor ==
  \A c \in Calls :
    (dispatches[c].firedAt = "active" /\ dispatches[c].firedBy = "cancelForUser") =>
      /\ c \in cancelNotices
      /\ toolJobs[c] \in {"active", "completed"}

\* C19: once a message of a user has started processing, no delayed proactive job
\* of that user stems from a turn before it.
C19_NewMessageLeavesNoEarlierJob ==
  \A u \in Users, t \in Turns :
    turns[u][t].run # "idle" =>
      \A j \in JobsOf(proactiveJobs, u) : j.state = "delayed" => j.message >= t

\* C20: the queue never holds both the job sched-<id> and the job scheduler
\* cron-<id> of the task; the job belongs to a task created with scheduled_at, the
\* job scheduler to a task created with cron_expression alone.
C20_AtMostOneRegistration ==
  /\ Cardinality(LiveRegistrations(taskQueue)) <= 1
  /\ taskQueue.sched # "none" => task.schedule = "once"
  /\ taskQueue.cron => task.schedule = "cron"

\* the cron registration of a task is still the only one after a firing ran
C20_Witness ==
  /\ last.op \in {"cronSuccess", "cronFailure"}
  /\ LiveRegistrations(taskQueue) = {"cron"}

\* C21: the firing of a cron job for a task that is failed or cancelled leaves the
\* task (status, failure count) and the runs as they are, publishes nothing, and
\* leaves no registration of the task in the queue.
C21_CronSkipOnlyDeregisters ==
  [][(taskQueue.cronJob /\ ~taskQueue'.cronJob /\ task.status \in {"failed", "cancelled"}) =>
       /\ task' = task
       /\ runs' = runs
       /\ LiveRegistrations(taskQueue') = {}
       /\ last'.op = "skipCron"
       /\ last'.published = {}]_vars

\* a cron job fired for a failed task and was skipped
C21_Witness ==
  /\ last.op = "skipCron"
  /\ task.status = "failed"
  /\ task.schedule = "cron"
  /\ LiveRegistrations(taskQueue) = {}

\* C22: at no time are two agent jobs of the same user being processed.
C22_OneTurnPerUser ==
  \A u \in Users : Cardinality(ActiveJobs(u)) <= 1

\* C23: a verdict checkInput computed with a layer that errored is safe, whatever
\* the other layer returned, and lets the turn on; a checkOutput whose layer errored
\* returns safe, so the response is returned as it is.
C23_GuardFailsOpen ==
  /\ (checks[0].state = "done" /\ ~checks[0].cached
        /\ (checks[0].echo = "error" \/ checks[0].content = "error")) =>
       (checks[0].safe /\ inputCheck = "safe")
  /\ obs.outputLayer = "error" =>
       (~obs.outputFlagged /\ pc = "done" /\ result.text = "t_long")

\* the echo layer flagged the input and the content layer errored, the turn went
\* on, and the content layer errored again on the response
C23_Witness ==
  /\ pc = "done"
  /\ checks[0].state = "done"
  /\ checks[0].echo = "unsafe"
  /\ checks[0].content = "error"
  /\ obs.outputLayer = "error"
  /\ result.text = "t_long"

\* the entries of the cache for a key that have not expired
FreshEntries(cache, key, t) == {i \in CacheIndex(cache, key) : t - cache[i].timestamp <= CacheTtl}

\* C24: a check of a message whose verdict is in the cache and has not expired runs
\* no layer and returns that verdict, for input checks (no check starts its layers
\* over a fresh entry, a hit returns the entry's verdict) and for output checks (the
\* layer of checkOutput does not run within the time to live of its previous run on
\* the same response).
C24_VerdictsCachedBothWays ==
  /\ [][\A c \in Callers :
          (checks[c].state = "free" /\ checks'[c].state = "pending") =>
             FreshEntries(verdictCache, GetCacheKey(checks'[c].msg, "input"), now) = {}]_vars
  /\ [][(checks[0].state = "free" /\ checks'[0].state = "done") =>
          \E i \in FreshEntries(verdictCache, GetCacheKey(checks'[0].msg, "input"), now) :
             checks'[0].safe = verdictCache[i].safe]_vars
  /\ [][(pc = "loop" /\ pc' = "done" /\ obs'.outputLayer \in LayerOutcomes) =>
          ~(obs.outputCheckedAt >= 0 /\ now - obs.outputCheckedAt <= CacheTtl)]_vars

C26_FlaggedOutputReplaced ==
  [][(pc = "loop" /\ obs'.lastStep = "final" /\ obs'.outputFlagged /\ llmCalls' # llmCalls) =>
       LET notice == Msg("assistant", BlockedOutputText, <<>>, NoId)
       IN /\ history' = Append(history, notice)
          /\ store' = IF params.userKnown THEN Append(store, notice) ELSE store
          /\ pc' = "done"
          /\ result'.text = BlockedOutputText]_vars

\* a turn of a known user ended with a flagged response: the notice is returned and
\* is the last message of the history and of the store
C26_Witness ==
  /\ pc = "done" /\ obs.lastStep = "final" /\ obs.outputFlagged /\ obs.outputLayer = "unsafe"
  /\ params.userKnown
  /\ result.text = BlockedOutputText
  /\ history # <<>> /\ Last(history).content = BlockedOutputText
  /\ store # <<>> /\ Last(store).content = BlockedOutputText

\* C27: a turn that created a correlation id and has ended, by returning or by
\* throwing, has called the session cleanup keyed by that id.
C27_EveryTurnCleansUp ==
  (obs.correlation /\ pc \in {"done", "threw"}) => obs.cleaned

\* the outcomes of the providers a call has tried, in order
TriedInCyclicOrder(c) ==
  \A j \in 1..Len(c.tried) : c.tried[j].idx = (c.startIndex + j - 1) % NumProviders

C29_CancelStopsRunningExecution ==
  [][\A s \in Slots :
       (runs[s].busy /\ runs[s].cancelled /\ last.op = "cancel" /\ runs'[s].busy) =>
          runs'[s].steps = runs[s].steps]_vars

\* C30: a cron task that the third failure paused and that task_update has set back
\* to scheduled has its cron registration.
C30_ResumedCronTaskIsRegistered ==
  (/\ last.op = "update" /\ last.before = "paused" /\ last.failures >= PauseThreshold
   /\ task.status = "scheduled" /\ task.schedule = "cron") => taskQueue.cron

\* C31: a job of u that was queued and not running when cancelForUser(u) was called
\* is never executed, a caller of u does not stay pending over the call, and the
\* call leaves the jobs and callers of the other users as they are.
C31_CancelRemovesQueuedJobs ==
  /\ [](\A j \in AgentJobIds :
          agentJobs[j].queuedAtCancel => agentJobs[j].state \notin {"active", "completed"})
  /\ [][\A u \in Users :
          (u \notin cancelling /\ u \in cancelling') =>
             \A j \in AgentJobIds :
               IF agentJobs[j].user = u
               THEN agentJobs'[j].caller # "pending"
               ELSE agentJobs'[j] = agentJobs[j]]_vars
  /\ [][\A u \in Users :
          (u \in cancelling /\ u \notin cancelling') =>
             \A j \in AgentJobIds :
               IF agentJobs[j].user = u
               THEN agentJobs'[j].state # "waiting"
               ELSE agentJobs'[j] = agentJobs[j]]_vars

\* the tool batch at position p of history is complete and every result is an error
ErrorBatchAt(p) ==
  /\ p + Len(history[p].toolCalls) <= Len(history)
  /\ \A j \in 1..Len(history[p].toolCalls) :
       history[p + j].role = "tool" /\ history[p + j].content = ContentOf(TRUE)

\* the tool batches of the turn before position q, the latest n of them
LatestBatchesBefore(q, n) ==
  {p \in BatchPositions : p < q /\ Cardinality({r \in BatchPositions : p < r /\ r < q}) < n}

HintJustInjected == obs.lastStep = "batch" /\ history # <<>> /\ Last(history) = HintMsg

C34_TurnEndsWithinTheCap ==
  /\ [](llmCalls <= cfg.maxIterations /\ iteration <= cfg.maxIterations)
  /\ []((pc = "done" /\ obs.lastStep = "exhausted") =>
          (llmCalls = cfg.maxIterations /\ result.text # ""))
  /\ <>(pc \in {"done", "threw"})

\* the cap ended a turn whose responses were tool_use and max_tokens responses
C34_Witness ==
  /\ pc = "done" /\ obs.lastStep = "exhausted"
  /\ llmCalls = cfg.maxIterations
  /\ BatchPositions # {}
  /\ obs.mtResponses > 0
  /\ result.text = FallbackMsg.content

\* C35: in a turn started with disableTaskTools the task management tools are not
\* among the tools offered, and no task handler is run for a call of the LLM.
C35_TaskToolsDisabled ==
  params.disableTaskTools =>
    /\ "task" \notin CollectTools(params.disableTaskTools)
    /\ ~obs.taskToolRan

\* C36: a check of a message shorter than ECHO_SKIP_LENGTH never ends unsafe, in the
\* modelled turn (whose echo layer is recorded as skipped, or whose verdict came from
\* the cache) and in the concurrent ones, whatever the content layer answered.
C36_ShortInputAlwaysAllowed ==
  /\ (checks[0].state = "done" /\ checks[0].msg.len < EchoSkipLength) =>
       /\ checks[0].safe /\ inputCheck = "safe"
       /\ checks[0].echo = IF checks[0].cached THEN "none" ELSE "skipped"
  /\ \A m \in flagged : m.len >= EchoSkipLength
  /\ \A i \in 1..Len(verdictCache) :
       (\E m \in GuardMessages : m.len < EchoSkipLength /\ verdictCache[i].key = GetCacheKey(m, "input"))
          => verdictCache[i].safe

\* the content layer flagged a message one character short of the threshold, and
\* the turn went on to its LLM call
C36_Witness ==
  /\ checks[0].state = "done" /\ ~checks[0].cached
  /\ checks[0].msg.len = EchoSkipLength - 1
  /\ checks[0].content = "unsafe"
  /\ checks[0].safe
  /\ llmCalls > 0

\* C37: when cancelForUser rejects the wait of an execution in flight, executeTask
\* takes its failure path: a one-off task becomes failed, a cron task's failure
\* count grows by one and the task is paused (its cron registration removed) when
\* the count reaches 3 and scheduled otherwise, and the failure notification and
\* task.failed are published.
C37_CancelDrivesTaskThroughFailurePath ==
  [][last'.rejected /\ last' # last =>
       /\ last'.published = {"notification.send", "task.failed"}
       /\ last'.op \in {"onceFailure", "cronFailure"}
       /\ last'.op = "onceFailure" =>
            (task'.status = "failed" /\ task'.failureCount = task.failureCount)
       /\ last'.op = "cronFailure" =>
            /\ task'.failureCount = task.failureCount + 1
            /\ task'.status = IF task'.failureCount >= PauseThreshold THEN "paused" ELSE "scheduled"
            /\ task'.status = "paused" => ~taskQueue'.cron]_vars

\* the third rejected wait of a cron task paused it
C37_Witness ==
  /\ last.rejected
  /\ last.op = "cronFailure"
  /\ task.status = "paused"
  /\ task.failureCount = PauseThreshold
  /\ ~taskQueue.cron
  /\ last.published = {"notification.send", "task.failed"}

\* the rows the turn has appended to the conversation store
AppendedInTurn == SubSeq(store, Len(obs.store0) + 1, Len(store))

\* C38: for a known user the rows appended to the conversation store during the
\* turn are, in order, the messages of the in-memory history from the turn's user
\* message on, after every step of every path; what comes before them in the
\* history is what was loaded from the store, and a turn refused for its length
\* pushes and appends nothing.
C38_StoreMirrorsHistory ==
  (params.userKnown /\ pc # "idle") =>
    /\ SubSeq(store, 1, Len(obs.store0)) = obs.store0
    /\ IF InputTooLong(params.length)
       THEN history = <<>> /\ AppendedInTurn = <<>>
       ELSE /\ AppendedInTurn # <<>>
            /\ AppendedInTurn[1] = UserMsg
            /\ history = GetHistory(obs.store0, HistoryLimit) \o AppendedInTurn

\* a turn that went through a tool batch, the circuit breaker's hint and a
\* max_tokens continuation has ended
C38_Witness ==
  /\ pc = "done"
  /\ params.userKnown
  /\ obs.store0 = PriorTurn
  /\ \E i \in 1..Len(AppendedInTurn) : AppendedInTurn[i].role = "tool"
  /\ \E i \in 1..Len(AppendedInTurn) : AppendedInTurn[i] = HintMsg
  /\ \E i \in 1..Len(AppendedInTurn) : AppendedInTurn[i] = ContMsg
  /\ Len(history) = HistoryLimit + Len(AppendedInTurn)

\* the job sched-<id> is taken by the processor after an attempt that threw
RetryOfScheduledTask ==
  /\ taskQueue.sched = "delayed"
  /\ taskQueue.attemptsMade > 0
  /\ taskQueue'.sched # "delayed"
  /\ last'.op \in {"skipOnce", "fireOnce", "remindOnce"}

\* C39: a one-off execution whose run failed has left the task failed when the
\* handler throws, and every retry of the job sched-<id> skips: it starts no agent
\* run, leaves the task as it is and publishes nothing, so the run is enqueued at
\* most once.
C39_RetriesEnqueueNothing ==
  /\ [][(last'.op = "onceFailure" /\ last' # last) => task'.status = "failed"]_vars
  /\ [][RetryOfScheduledTask =>
          /\ last'.op = "skipOnce"
          /\ last'.published = {}
          /\ task' = task
          /\ runs' = runs]_vars

\* C40: a job's controller is in the processor's map exactly while the job is
\* being processed and not yet cancelled, and a cancelForUser(u) aborts every job
\* of u that is being processed, also when jobs of one user overlap.
C40_CancelAbortsEveryActiveJob ==
  /\ [](\A j \in AgentJobIds :
          (agentJobs[j].state = "active" /\ ~agentJobs[j].aborted) =>
            activeControllers[agentJobs[j].user] = j)
  /\ [](\A u \in Users :
          activeControllers[u] # 0 => activeControllers[u] \in ActiveJobs(u))
  /\ [][\A u \in Users : (u \notin cancelling /\ u \in cancelling') =>
          \A j \in ActiveJobs(u) : agentJobs'[j].aborted]_vars

====
